---- MODULE Spec2Model ----
(***************************************************************************)
(* Entry-point resolution, deployment adapter and token authentication of *)
(* the Modal deployment scripts agno_modal_deploy.py (FastAPI) and         *)
(* agno_modal_deploy_agui.py (AG-UI).                                      *)
(*                                                                         *)
(* Python strings are sequences of one-character strings, so that          *)
(* str.startswith, the `in` substring test, str.lower, slicing and the     *)
(* ordering used by dir() are computed, not assumed.                       *)
(***************************************************************************)
EXTENDS Integers, Sequences, FiniteSets, TLC

VARIABLES
    script,        \* which deployment script runs: "fastapi" or "agui"
    agent_module,  \* the module importlib.import_module(AGENT_MODULE) returned
    pc,            \* position of the deployment function: "start" or "done"
    result,        \* outcome of fastapi_app() / agui_app()
    mw,            \* the served surface requests go through (SpecAuth)
    req,           \* the request in flight (SpecAuth)
    rpc,           \* position of TokenAuthMiddleware.__call__ for that request
    sent,          \* ASGI messages the middleware sent for that request
    app_calls,     \* number of times the wrapped application was called for it
    raised,        \* exception that escaped __call__ for that request, or "none"
    inflight,      \* the concurrent __call__ coroutines (SpecConcurrent)
    resolutions,   \* the resolver calls running side by side (SpecResolve)
    requirements_txt,     \* the requirements.txt next to the script
    python_dependencies,  \* outcome of load_requirements()
    auth_enabled,         \* ENABLE_AUTH as the script was edited to set it
    env_file,             \* the .env file next to the script
    validation            \* outcome of validate_auth_configuration()

\* what the deployment-time checks read and produce
build == <<requirements_txt, python_dependencies, auth_enabled, env_file, validation>>

vars == <<script, agent_module, pc, result, mw, req, rpc, sent, app_calls, raised,
          inflight, resolutions, build>>

----------------------------------------------------------------------------
(* Bounds of the model *)

\* largest number of attributes of a generated module
MaxAttrs == 3
\* largest length of a generated __all__ list
MaxAll == 2
\* largest number of header pairs in a generated request scope
MaxHeaders == 1
\* largest number of requests one middleware instance handles at a time
MaxRequests == 2
\* largest number of lines of a generated requirements.txt or .env
MaxLines == 2

----------------------------------------------------------------------------
(* Python str operations *)

UpperChars == <<"A", "B", "C", "D", "E", "F", "G", "H", "I", "J", "K", "L", "M", "N", "O", "P", "Q", "R", "S", "T", "U", "V", "W", "X", "Y", "Z">>
LowerChars == <<"a", "b", "c", "d", "e", "f", "g", "h", "i", "j", "k", "l", "m", "n", "o", "p", "q", "r", "s", "t", "u", "v", "w", "x", "y", "z">>

\* characters in code-point order, as far as names, headers and the lines of
\* requirements.txt and .env use them
Alphabet ==
    <<"\t", "\n", " ", "#", "-", ".", "/", "=">> \o UpperChars \o <<"_">> \o LowerChars

Chars == {Alphabet[i] : i \in 1..Len(Alphabet)}

\* ord(c), as a table
OrdOf == [c \in Chars |-> CHOOSE i \in 1..Len(Alphabet) : Alphabet[i] = c]

Ord(c) == OrdOf[c]

\* c.lower(), as a table: an upper-case letter becomes the lower-case one
LowerOf ==
    [c \in Chars |->
        IF \E i \in 1..26 : UpperChars[i] = c
        THEN LowerChars[CHOOSE i \in 1..26 : UpperChars[i] = c]
        ELSE c]

LowerChar(c) == IF c \in Chars THEN LowerOf[c] ELSE c

\* s.lower()
Lower(s) == [i \in 1..Len(s) |-> LowerChar(s[i])]

\* s.startswith(p)
StartsWith(s, p) == Len(s) >= Len(p) /\ SubSeq(s, 1, Len(p)) = p

\* sub in s
Contains(s, sub) ==
    \E i \in 1..(Len(s) - Len(sub) + 1) : SubSeq(s, i, i + Len(sub) - 1) = sub

\* s[k:]  (k counted from 0)
SliceFrom(s, k) == SubSeq(s, k + 1, Len(s))

\* a < b for str: first differing character decides, a proper prefix is smaller
StrLess(a, b) ==
    \E i \in 1..(Len(b)) :
        /\ i <= Len(a) + 1
        /\ SubSeq(a, 1, i - 1) = SubSeq(b, 1, i - 1)
        /\ \/ i = Len(a) + 1
           \/ (i <= Len(a) /\ Ord(a[i]) < Ord(b[i]))

RECURSIVE SortedSeq(_)
\* sorted(S) for a set of str
SortedSeq(S) ==
    IF S = {} THEN <<>>
    ELSE LET m == CHOOSE x \in S : \A y \in S \ {x} : StrLess(x, y)
         IN  <<m>> \o SortedSeq(S \ {m})

\* keywords of the name heuristics
kw_create   == <<"c", "r", "e", "a", "t", "e">>
kw_fastapi  == <<"f", "a", "s", "t", "a", "p", "i">>
kw_agui     == <<"a", "g", "u", "i">>
kw_app      == <<"a", "p", "p">>
kw_agent    == <<"a", "g", "e", "n", "t">>
kw_team     == <<"t", "e", "a", "m">>
kw_underscore == <<"_">>

\* names the generated modules use
n_create_fastapi_app   == <<"c", "r", "e", "a", "t", "e", "_", "f", "a", "s", "t", "a", "p", "i", "_", "a", "p", "p">>
n_create_agui_app      == <<"c", "r", "e", "a", "t", "e", "_", "a", "g", "u", "i", "_", "a", "p", "p">>
n_create_agent         == <<"c", "r", "e", "a", "t", "e", "_", "a", "g", "e", "n", "t">>
n_create_trading_agent == <<"c", "r", "e", "a", "t", "e", "_", "t", "r", "a", "d", "i", "n", "g", "_", "a", "g", "e", "n", "t">>
n_create_team          == <<"c", "r", "e", "a", "t", "e", "_", "t", "e", "a", "m">>
n_financial_agent      == <<"f", "i", "n", "a", "n", "c", "i", "a", "l", "_", "a", "g", "e", "n", "t">>
n_fastapi_app          == <<"f", "i", "n", "a", "n", "c", "i", "a", "l", "_", "f", "a", "s", "t", "a", "p", "i", "_", "a", "p", "p">>
n_agui_app             == <<"a", "g", "u", "i", "_", "a", "p", "p">>
n_team                 == <<"r", "e", "s", "e", "a", "r", "c", "h", "_", "t", "e", "a", "m">>
n_main                 == <<"m", "a", "i", "n">>
n_private_agent        == <<"_", "a", "g", "e", "n", "t">>
n_Agent                == <<"A", "g", "e", "n", "t">>
n_missing              == <<"m", "i", "s", "s", "i", "n", "g", "_", "n", "a", "m", "e">>

\* names that meet the keywords of several categories, of none, or in
\* another letter case
n_create_fastapi_agent_app == <<"c", "r", "e", "a", "t", "e", "_", "f", "a", "s", "t", "a", "p", "i", "_", "a", "g", "e", "n", "t", "_", "a", "p", "p">>
n_create_agui_team_app     == <<"c", "r", "e", "a", "t", "e", "_", "a", "g", "u", "i", "_", "t", "e", "a", "m", "_", "a", "p", "p">>
n_create_agent_team        == <<"c", "r", "e", "a", "t", "e", "_", "a", "g", "e", "n", "t", "_", "t", "e", "a", "m">>
n_create_AGENT             == <<"c", "r", "e", "a", "t", "e", "_", "A", "G", "E", "N", "T">>
n_Create_agent             == <<"C", "r", "e", "a", "t", "e", "_", "a", "g", "e", "n", "t">>
n_build_agent              == <<"b", "u", "i", "l", "d", "_", "a", "g", "e", "n", "t">>
n_create_app               == <<"c", "r", "e", "a", "t", "e", "_", "a", "p", "p">>

----------------------------------------------------------------------------
(* Python objects *)

\* an object: identity, inspect.isclass, callable(), its class, its __module__
\* ("absent" when it has no such attribute) and, for a function, what a call
\* with no arguments returns; an App also records what it was built around
Obj(id, isclass, callable, type, module, ret) ==
    [id |-> id, isclass |-> isclass, callable |-> callable, type |-> type,
     module |-> module, ret |-> ret, agents |-> <<>>, agent |-> "none",
     team |-> "none"]

NoObj == Obj("none", FALSE, FALSE, "NoneType", "absent", "none")

\* __name__ of the module being resolved, and of the library modules
ThisModule == "agno_agents.financial_agent_app"
OtherModule == "agno_agents.shared"

Function(id, module, ret) == Obj(id, FALSE, TRUE, "function", module, ret)
Class(id, module)         == Obj(id, TRUE, TRUE, "type", module, "none")
Instance(id, type)        == Obj(id, FALSE, FALSE, type, "absent", "none")

\* the classes a class derives from, itself included
Mro(type) ==
    CASE type = "FinancialAgent" -> {"FinancialAgent", "Agent"}
      [] OTHER                   -> {type}

\* isinstance(obj, cls)
IsInstance(obj, cls) == cls \in Mro(obj.type)

\* FastAPIApp(agents=[agent])
FastAPIApp(agents) ==
    [Instance("FastAPIApp()", "FastAPIApp") EXCEPT !.agents = agents]

\* AGUIApp(agent=agent)
AGUIAppOfAgent(agent) ==
    [Instance("AGUIApp()", "AGUIApp") EXCEPT !.agent = agent]

\* AGUIApp(team=team)
AGUIAppOfTeam(team) ==
    [Instance("AGUIApp()", "AGUIApp") EXCEPT !.team = team]

\* the value a call func() returns
Call(func) ==
    CASE func.ret = "app"   -> Instance("made_app", "FastAPIApp")
      [] func.ret = "agui"  -> Instance("made_agui", "AGUIApp")
      [] func.ret = "agent" -> Instance("made_agent", "Agent")
      [] func.ret = "team"  -> Instance("made_team", "Team")
      [] OTHER              -> NoObj

\* calling the function raises instead of returning
Raises(func) == func.ret = "raise"

\* a route of the ASGI application: its path, whether it is an API route with
\* a dependant, and the number of security dependencies added to it
Route(path, dependant) == [path |-> path, dependant |-> dependant, security |-> 0]

\* the paths requests ask for and routes are mounted at
Paths == {"/health", "/openapi.json", "/docs", "/redoc", "/health/x", "/v1/runs"}

\* app.get_app(): the ASGI application serving that App, with its routes and
\* its cached OpenAPI schema
GetApp(app_obj) ==
    [asgi |-> "FastAPI", of |-> app_obj,
     routes |-> {Route(p, d) : p \in Paths, d \in BOOLEAN},
     openapi_schema |-> "cached"]

----------------------------------------------------------------------------
(* Modules the resolvers are run on *)

Export(name, obj) == [name |-> name, obj |-> obj]

\* exports a module deployed by either script may hold, after the example
\* agent files: factories, a re-exported factory, a factory whose body
\* raises, a factory returning None,
\* an Agent variable, main(), a private variable, the imported Agent class
CommonExports ==
    { Export(n_create_agent, Function("f_agent", ThisModule, "agent")),
      Export(n_create_agent, Function("f_imported", OtherModule, "agent")),
      Export(n_create_agent, Function("f_raises", ThisModule, "raise")),
      Export(n_create_trading_agent, Function("f_trading", ThisModule, "none")),
      Export(n_financial_agent, Instance("v_agent", "Agent")),
      Export(n_main, Function("f_main", ThisModule, "none")),
      Export(n_private_agent, Instance("v_private", "Agent")),
      Export(n_Agent, Class("c_Agent", "agno.agent")) }

\* exports of the modules agno_modal_deploy.py deploys
FastapiExports ==
    { Export(n_create_fastapi_app, Function("f_fastapi", ThisModule, "app")),
      Export(n_create_fastapi_app, Function("f_fastapi_bad", ThisModule, "agent")),
      Export(n_fastapi_app, Instance("v_app", "FastAPIApp")) }

\* exports of the modules agno_modal_deploy_agui.py deploys
AguiExports ==
    { Export(n_create_agui_app, Function("f_agui", ThisModule, "agui")),
      Export(n_create_team, Function("f_team", ThisModule, "team")),
      Export(n_create_team, Function("f_team_bad", ThisModule, "agent")),
      Export(n_agui_app, Instance("v_agui", "AGUIApp")),
      Export(n_team, Instance("v_team", "Team")) }

ExportPool(s) ==
    CommonExports \cup (IF s = "fastapi" THEN FastapiExports ELSE AguiExports)

\* the export sets a generated module is built from: at most MaxAttrs
\* exports, one value per name
IsExportSet(E) ==
    /\ Cardinality(E) <= MaxAttrs
    /\ \A e1, e2 \in E : e1.name = e2.name => e1 = e2

\* the module's attribute dictionary
AttrDict(E) == [n \in {e.name : e \in E} |-> (CHOOSE e \in E : e.name = n).obj]

\* the __all__ lists a module with these attributes may declare: any list of
\* at most MaxAll of its names, or of a name it does not have
AllLists(attrs) ==
    UNION { [1..l -> (DOMAIN attrs) \cup {n_missing}] : l \in 0..MaxAll }

Module(attrs, has_all, all) ==
    [name |-> ThisModule, attrs |-> attrs, has_all |-> has_all, all |-> all]

\* AGENT_MODULE names a file that cannot be imported
NoModule ==
    [name |-> "absent", attrs |-> <<>>, has_all |-> FALSE, all |-> <<>>]

\* m is one of the modules generated for script s
IsModule(m, s) ==
    \E E \in SUBSET ExportPool(s) :
        /\ IsExportSet(E)
        /\ \/ m = Module(AttrDict(E), FALSE, <<>>)
           \/ \E l \in AllLists(AttrDict(E)) : m = Module(AttrDict(E), TRUE, l)

\* dir(module) without the dunder names every module has: sorted names
Dir(m) == SortedSeq(DOMAIN m.attrs)

----------------------------------------------------------------------------
(* detect_agent_pattern / detect_agui_pattern *)

\* a name list that leaves __all__ aside
AvailableNames_IgnoreAll(m) ==
    SelectSeq(SortedSeq(DOMAIN m.attrs), LAMBDA name : ~StartsWith(name, kw_underscore))

RECURSIVE Distinct(_)
\* the list without the repetitions of a name, first occurrences kept
Distinct(seq) ==
    IF seq = <<>> THEN <<>>
    ELSE LET front == Distinct(SubSeq(seq, 1, Len(seq) - 1))
             last == seq[Len(seq)]
         IN  IF \E i \in 1..Len(front) : front[i] = last
             THEN front ELSE Append(front, last)

\* a name list that looks at every name of __all__ once
AvailableNames_Distinct(m) ==
    IF m.has_all THEN Distinct(m.all)
    ELSE SelectSeq(Dir(m), LAMBDA name : ~StartsWith(name, kw_underscore))

\* available_names: __all__ when declared, else the non-private names of dir()
AvailableNames(m) ==
    IF m.has_all THEN m.all
    ELSE SelectSeq(Dir(m), LAMBDA name : ~StartsWith(name, kw_underscore))

\* a module check that lets every function pass
DefinedHere_Any(obj, m) == TRUE

\* hasattr(obj, '__module__') and obj.__module__ == agent_module.__name__
DefinedHere(obj, m) == obj.module # "absent" /\ obj.module = m.name

\* the names the generated modules and __all__ lists use
Names ==
    { n_create_fastapi_app, n_create_agui_app, n_create_agent,
      n_create_trading_agent, n_create_team, n_financial_agent, n_fastapi_app,
      n_agui_app, n_team, n_main, n_private_agent, n_Agent, n_missing,
      n_create_fastapi_agent_app, n_create_agui_team_app, n_create_agent_team,
      n_create_AGENT, n_Create_agent, n_build_agent, n_create_app }

\* name tests that ask for the keywords only, not for the 'create' prefix
NameTests_NoPrefix ==
    [name \in Names |->
        LET func_name_lower == Lower(name)
        IN  [fastapi |-> \/ name = n_create_fastapi_app
                         \/ /\ Contains(func_name_lower, kw_fastapi)
                            /\ Contains(func_name_lower, kw_app),
             agui    |-> \/ name = n_create_agui_app
                         \/ /\ Contains(func_name_lower, kw_agui)
                            /\ Contains(func_name_lower, kw_app),
             agent   |-> \/ Contains(func_name_lower, kw_agent)
                         \/ name = n_create_agent,
             team    |-> \/ Contains(func_name_lower, kw_team)
                         \/ name = n_create_team]]

\* the function-name tests of the two loop bodies, computed once per name
NameTests ==
    [name \in Names |->
        LET func_name_lower == Lower(name)
        IN  [fastapi |-> \/ name = n_create_fastapi_app
                         \/ /\ Contains(func_name_lower, kw_fastapi)
                            /\ Contains(func_name_lower, kw_app)
                            /\ StartsWith(name, kw_create),
             agui    |-> \/ name = n_create_agui_app
                         \/ /\ Contains(func_name_lower, kw_agui)
                            /\ Contains(func_name_lower, kw_app)
                            /\ StartsWith(name, kw_create),
             agent   |-> \/ /\ Contains(func_name_lower, kw_agent)
                            /\ StartsWith(name, kw_create)
                         \/ name = n_create_agent,
             team    |-> \/ /\ Contains(func_name_lower, kw_team)
                            /\ StartsWith(name, kw_create)
                         \/ name = n_create_team]]

\* a loop body that tests the Agent keyword before the FastAPIApp keywords
ClassifyAgent_AgentFirst(m, name) ==
    IF name \notin DOMAIN m.attrs
    THEN "none"
    ELSE
        LET obj == m.attrs[name]
        IN  IF obj.callable /\ ~obj.isclass
            THEN IF DefinedHere(obj, m)
                 THEN IF NameTests[name].agent
                      THEN "agent_function"
                      ELSE IF NameTests[name].fastapi
                      THEN "fastapi_function"
                      ELSE "none"
                 ELSE "none"
            ELSE IF IsInstance(obj, "FastAPIApp") THEN "fastapi_variable"
            ELSE IF IsInstance(obj, "Agent") THEN "agent_variable"
            ELSE "none"

\* the list a value is appended to by one pass of the loop body of
\* detect_agent_pattern, "none" when it is appended to no list
ClassifyAgent(m, name) ==
    IF name \notin DOMAIN m.attrs
    THEN "none"   \* getattr raises, the except clause skips the name
    ELSE
        LET obj == m.attrs[name]
        IN  IF obj.callable /\ ~obj.isclass
            THEN IF DefinedHere(obj, m)
                 THEN IF NameTests[name].fastapi
                      THEN "fastapi_function"
                      ELSE IF NameTests[name].agent
                      THEN "agent_function"
                      ELSE "none"
                 ELSE "none"
            ELSE IF IsInstance(obj, "FastAPIApp") THEN "fastapi_variable"
            ELSE IF IsInstance(obj, "Agent") THEN "agent_variable"
            ELSE "none"

\* a loop body that tests the classes of a value before asking whether it
\* can be called
ClassifyAgui_InstanceFirst(m, name) ==
    IF name \notin DOMAIN m.attrs
    THEN "none"
    ELSE
        LET obj == m.attrs[name]
        IN  IF IsInstance(obj, "AGUIApp") THEN "agui_variable"
            ELSE IF IsInstance(obj, "Agent") THEN "agent_variable"
            ELSE IF IsInstance(obj, "Team") THEN "team_variable"
            ELSE IF obj.callable /\ ~obj.isclass /\ DefinedHere(obj, m)
            THEN IF NameTests[name].agui
                 THEN "agui_function"
                 ELSE IF NameTests[name].agent
                 THEN "agent_function"
                 ELSE IF NameTests[name].team
                 THEN "team_function"
                 ELSE "none"
            ELSE "none"

\* the same for the loop body of detect_agui_pattern
ClassifyAgui(m, name) ==
    IF name \notin DOMAIN m.attrs
    THEN "none"
    ELSE
        LET obj == m.attrs[name]
        IN  IF obj.callable /\ ~obj.isclass
            THEN IF DefinedHere(obj, m)
                 THEN IF NameTests[name].agui
                      THEN "agui_function"
                      ELSE IF NameTests[name].agent
                      THEN "agent_function"
                      ELSE IF NameTests[name].team
                      THEN "team_function"
                      ELSE "none"
                 ELSE "none"
            ELSE IF IsInstance(obj, "AGUIApp") THEN "agui_variable"
            ELSE IF IsInstance(obj, "Agent") THEN "agent_variable"
            ELSE IF IsInstance(obj, "Team") THEN "team_variable"
            ELSE "none"

AgentCategories ==
    <<"fastapi_function", "agent_function", "fastapi_variable", "agent_variable">>

AguiCategories ==
    <<"agui_function", "agent_function", "team_function",
      "agui_variable", "agent_variable", "team_variable">>

\* candidate lists kept at module level: a call starts from what another
\* call has collected so far
EmptyLists_Shared(categories) ==
    LET busy == {k \in DOMAIN resolutions : resolutions[k].pc = "loop"}
    IN  IF busy = {}
        THEN [c \in {categories[i] : i \in 1..Len(categories)} |-> <<>>]
        ELSE resolutions[CHOOSE k \in busy : TRUE].lists

\* the candidate lists before the loop: all empty
EmptyLists(categories) ==
    [c \in {categories[i] : i \in 1..Len(categories)} |-> <<>>]

RECURSIVE CollectAgent_StopAtError(_, _, _, _)
\* a loop whose try block is around the whole loop: the first name that
\* cannot be fetched ends it
CollectAgent_StopAtError(m, names, i, lists) ==
    IF i > Len(names) THEN lists
    ELSE IF names[i] \notin DOMAIN m.attrs THEN lists
    ELSE LET c == ClassifyAgent(m, names[i])
         IN  CollectAgent_StopAtError(m, names, i + 1,
                 IF c = "none" THEN lists
                 ELSE [lists EXCEPT ![c] = Append(@, <<names[i], m.attrs[names[i]]>>)])

RECURSIVE CollectAgent(_, _, _, _)
\* the for loop of detect_agent_pattern from position i on: (name, obj) is
\* appended to the list of its category
CollectAgent(m, names, i, lists) ==
    IF i > Len(names) THEN lists
    ELSE LET c == ClassifyAgent(m, names[i])
         IN  CollectAgent(m, names, i + 1,
                 IF c = "none" THEN lists
                 ELSE [lists EXCEPT ![c] = Append(@, <<names[i], m.attrs[names[i]]>>)])

RECURSIVE CollectAgui(_, _, _, _)
\* the for loop of detect_agui_pattern from position i on
CollectAgui(m, names, i, lists) ==
    IF i > Len(names) THEN lists
    ELSE LET c == ClassifyAgui(m, names[i])
         IN  CollectAgui(m, names, i + 1,
                 IF c = "none" THEN lists
                 ELSE [lists EXCEPT ![c] = Append(@, <<names[i], m.attrs[names[i]]>>)])

\* [name for name, _ in candidates]
NamesOf(candidates) == [i \in 1..Len(candidates) |-> candidates[i][1]]

\* what a resolver call ends in: a returned triple (exc = "none") or a raised
\* exception with the names its message lists
Returned(pattern_type, candidate) ==
    [exc |-> "none", pattern_type |-> pattern_type, pattern_object |-> candidate[2],
     pattern_name |-> candidate[1], names |-> <<>>, shapes |-> 0]

\* raise ValueError("Multiple ... found: {names}. Please export only one ...")
Ambiguous(pattern_type, candidates) ==
    [exc |-> "ValueError", pattern_type |-> pattern_type, pattern_object |-> NoObj,
     pattern_name |-> <<>>, names |-> NamesOf(candidates), shapes |-> 0]

\* raise ImportError("No valid ... pattern found ... Supported patterns: 1. ...")
NoPatternFound(shapes) ==
    [exc |-> "ImportError", pattern_type |-> "none", pattern_object |-> NoObj,
     pattern_name |-> <<>>, names |-> <<>>, shapes |-> shapes]

\* a cascade step that takes the first of several candidates
Select_PickFirst(pattern_type, candidates, otherwise) ==
    IF Len(candidates) > 0
    THEN Returned(pattern_type, candidates[1])
    ELSE otherwise

\* one step of the priority cascade: the list of this category decides when
\* it is not empty
Select(pattern_type, candidates, otherwise) ==
    IF Len(candidates) > 0
    THEN IF Len(candidates) > 1
         THEN Ambiguous(pattern_type, candidates)
         ELSE Returned(pattern_type, candidates[1])
    ELSE otherwise

\* a cascade that looks at the Agent functions before the FastAPIApp functions
DetectAgentOver_AgentFirst(m, available_names) ==
    LET lists == CollectAgent(m, available_names, 1, EmptyLists(AgentCategories))
    IN  Select("agent_function", lists["agent_function"],
        Select("fastapi_function", lists["fastapi_function"],
        Select("fastapi_variable", lists["fastapi_variable"],
        Select("agent_variable", lists["agent_variable"],
        NoPatternFound(4)))))

\* a resolver that returns the first name the loop classifies
DetectAgentOver_FirstFound(m, available_names) ==
    LET hits == {i \in 1..Len(available_names) :
                    ClassifyAgent(m, available_names[i]) # "none"}
        first == CHOOSE i \in hits : \A j \in hits : i <= j
    IN  IF hits = {} THEN NoPatternFound(4)
        ELSE Returned(ClassifyAgent(m, available_names[first]),
                      <<available_names[first], m.attrs[available_names[first]]>>)

\* detect_agent_pattern run on the names in this order
DetectAgentOver(m, available_names) ==
    LET lists == CollectAgent(m, available_names, 1, EmptyLists(AgentCategories))
    IN  Select("fastapi_function", lists["fastapi_function"],
        Select("agent_function", lists["agent_function"],
        Select("fastapi_variable", lists["fastapi_variable"],
        Select("agent_variable", lists["agent_variable"],
        NoPatternFound(4)))))

\* a cascade that stops before the Team variables
DetectAguiOver_NoTeamVariable(m, available_names) ==
    LET lists == CollectAgui(m, available_names, 1, EmptyLists(AguiCategories))
    IN  Select("agui_function", lists["agui_function"],
        Select("agent_function", lists["agent_function"],
        Select("team_function", lists["team_function"],
        Select("agui_variable", lists["agui_variable"],
        Select("agent_variable", lists["agent_variable"],
        NoPatternFound(6))))))

\* detect_agui_pattern run on the names in this order
DetectAguiOver(m, available_names) ==
    LET lists == CollectAgui(m, available_names, 1, EmptyLists(AguiCategories))
    IN  Select("agui_function", lists["agui_function"],
        Select("agent_function", lists["agent_function"],
        Select("team_function", lists["team_function"],
        Select("agui_variable", lists["agui_variable"],
        Select("agent_variable", lists["agent_variable"],
        Select("team_variable", lists["team_variable"],
        NoPatternFound(6)))))))

detect_agent_pattern(m) == DetectAgentOver(m, AvailableNames(m))

detect_agui_pattern(m) == DetectAguiOver(m, AvailableNames(m))

----------------------------------------------------------------------------
(* Configuration and the token authentication middleware *)

\* ENABLE_AUTH and PROTECT_DOCS as the script sets them
ENABLE_AUTH == TRUE
PROTECT_DOCS == FALSE

\* os.getenv("AUTH_TOKEN"): a str, or None when the variable is not set
Some(s) == [none |-> FALSE, s |-> s]
None == [none |-> TRUE, s |-> <<>>]

tok_secret == <<"s", "e", "c", "r", "e", "t">>
tok_wrong  == <<"w", "r", "o", "n", "g">>

\* the values AUTH_TOKEN may have in the container
EnvTokens == {Some(tok_secret), Some(<<>>), None}

\* a middleware whose documentation paths stay public whatever protect_docs is
TokenAuthMiddleware_DocsPublic(app, token, protect_docs) ==
    [kind |-> "TokenAuthMiddleware", app |-> app, token |-> token,
     protect_docs |-> protect_docs,
     public_endpoints |-> {"/health", "/openapi.json", "/docs", "/redoc"}]

\* TokenAuthMiddleware.__init__
TokenAuthMiddleware(app, token, protect_docs) ==
    [kind |-> "TokenAuthMiddleware", app |-> app, token |-> token,
     protect_docs |-> protect_docs,
     public_endpoints |->
        {"/health", "/openapi.json"}
            \cup (IF ~protect_docs THEN {"/docs", "/redoc"} ELSE {})]

\* an application served as it is, without middleware
Unwrapped(app) ==
    [kind |-> "app", app |-> app, token |-> None, protect_docs |-> FALSE,
     public_endpoints |-> {}]

NoSurface == Unwrapped(GetApp(NoObj))

\* a route loop that leaves the documentation routes out whatever
\* PROTECT_DOCS is
AddSecurity_DocsExempt(app_instance, protect_docs) ==
    [app_instance EXCEPT
        !.routes = { IF /\ r.dependant
                        /\ r.path \notin {"/health", "/openapi.json", "/docs", "/redoc"}
                     THEN [r EXCEPT !.security = @ + 1]
                     ELSE r : r \in app_instance.routes },
        !.openapi_schema = "None"]

\* the loop over app_instance.routes: every route with a dependant gets the
\* security dependency unless its path is exempt; the schema cache is dropped
AddSecurity(app_instance, protect_docs) ==
    [app_instance EXCEPT
        !.routes = { IF /\ r.dependant
                        /\ r.path \notin {"/health", "/openapi.json"}
                        /\ ~(~protect_docs /\ r.path \in {"/docs", "/redoc"})
                     THEN [r EXCEPT !.security = @ + 1]
                     ELSE r : r \in app_instance.routes },
        !.openapi_schema = "None"]

\* an ending that puts the middleware around the application whatever
\* ENABLE_AUTH is
ApplyAuth_AlwaysWrap(app_instance, enable_auth, auth_token, protect_docs) ==
    TokenAuthMiddleware(AddSecurity(app_instance, protect_docs),
                        auth_token, protect_docs)

\* the end of fastapi_app: the routes are marked and the middleware goes
\* around the application when authentication is enabled
ApplyAuth(app_instance, enable_auth, auth_token, protect_docs) ==
    IF enable_auth
    THEN TokenAuthMiddleware(AddSecurity(app_instance, protect_docs),
                             auth_token, protect_docs)
    ELSE Unwrapped(app_instance)

----------------------------------------------------------------------------
(* fastapi_app / agui_app: import, resolve, invoke, type-check, wrap *)

\* the pattern types whose object the deployment function calls
FunctionCategories ==
    {"fastapi_function", "agui_function", "agent_function", "team_function"}

\* the deployment function returned app_instance
Served(detected, invoked, app_obj, app_instance) ==
    [status |-> "returned", exc |-> "none", detected |-> detected,
     invoked |-> invoked, app_obj |-> app_obj, app_instance |-> app_instance]

\* the deployment function re-raised exc from its except clauses
Failed(exc, detected, invoked) ==
    [status |-> "raised", exc |-> exc, detected |-> detected,
     invoked |-> invoked, app_obj |-> NoObj, app_instance |-> NoSurface]

\* before the resolver has run
NoDetection ==
    [exc |-> "none", pattern_type |-> "none", pattern_object |-> NoObj,
     pattern_name |-> <<>>, names |-> <<>>, shapes |-> 0]

NotRun ==
    [status |-> "none", exc |-> "none", detected |-> NoDetection,
     invoked |-> <<>>, app_obj |-> NoObj, app_instance |-> NoSurface]

\* an adapter that builds a new App around whatever was resolved
DeployFastapi_AlwaysWrap(m, enable_auth, auth_token, protect_docs) ==
    LET d == detect_agent_pattern(m)
        pattern_object == d.pattern_object
        isfunc == d.pattern_type \in {"fastapi_function", "agent_function"}
        made == IF isfunc THEN Call(pattern_object) ELSE pattern_object
        invoked == IF isfunc THEN <<pattern_object.id>> ELSE <<>>
        app_obj == FastAPIApp(<<made.id>>)
    IN  IF m = NoModule THEN Failed("ImportError", NoDetection, <<>>)
        ELSE IF d.exc # "none" THEN Failed(d.exc, d, <<>>)
        ELSE IF d.pattern_type \in FunctionCategories /\ Raises(pattern_object)
        THEN Failed("RuntimeError", d, <<pattern_object.id>>)
        ELSE IF d.pattern_type = "fastapi_function" /\ ~IsInstance(made, "FastAPIApp")
        THEN Failed("TypeError", d, invoked)
        ELSE IF d.pattern_type = "agent_function" /\ ~IsInstance(made, "Agent")
        THEN Failed("TypeError", d, invoked)
        ELSE Served(d, invoked, app_obj,
                    ApplyAuth(GetApp(app_obj), enable_auth, auth_token, protect_docs))

\* an adapter that serves what a function returned without checking its type
DeployFastapi_NoTypeCheck(m, enable_auth, auth_token, protect_docs) ==
    LET d == detect_agent_pattern(m)
        pattern_object == d.pattern_object
        made == Call(pattern_object)
        finish(invoked, app_obj) ==
            Served(d, invoked, app_obj,
                   ApplyAuth(GetApp(app_obj), enable_auth, auth_token, protect_docs))
    IN  IF m = NoModule THEN Failed("ImportError", NoDetection, <<>>)
        ELSE IF d.exc # "none" THEN Failed(d.exc, d, <<>>)
        ELSE IF d.pattern_type \in FunctionCategories /\ Raises(pattern_object)
        THEN Failed("RuntimeError", d, <<pattern_object.id>>)
        ELSE IF d.pattern_type = "fastapi_function"
        THEN finish(<<pattern_object.id>>, made)
        ELSE IF d.pattern_type = "agent_function"
        THEN finish(<<pattern_object.id>>, FastAPIApp(<<made.id>>))
        ELSE IF d.pattern_type = "fastapi_variable"
        THEN finish(<<>>, pattern_object)
        ELSE finish(<<>>, FastAPIApp(<<pattern_object.id>>))

\* an adapter that serves an App without agents when anything on the way
\* fails, instead of raising
DeployFastapi_DefaultApp(m, enable_auth, auth_token, protect_docs) ==
    LET d == detect_agent_pattern(m)
        pattern_object == d.pattern_object
        made == Call(pattern_object)
        finish(detected, invoked, app_obj) ==
            Served(detected, invoked, app_obj,
                   ApplyAuth(GetApp(app_obj), enable_auth, auth_token, protect_docs))
    IN  IF m = NoModule THEN finish(NoDetection, <<>>, FastAPIApp(<<>>))
        ELSE IF d.exc # "none" THEN finish(d, <<>>, FastAPIApp(<<>>))
        ELSE IF d.pattern_type \in FunctionCategories /\ Raises(pattern_object)
        THEN finish(d, <<pattern_object.id>>, FastAPIApp(<<>>))
        ELSE IF d.pattern_type = "fastapi_function"
        THEN IF ~IsInstance(made, "FastAPIApp")
             THEN finish(d, <<pattern_object.id>>, FastAPIApp(<<>>))
             ELSE finish(d, <<pattern_object.id>>, made)
        ELSE IF d.pattern_type = "agent_function"
        THEN IF ~IsInstance(made, "Agent")
             THEN finish(d, <<pattern_object.id>>, FastAPIApp(<<>>))
             ELSE finish(d, <<pattern_object.id>>, FastAPIApp(<<made.id>>))
        ELSE IF d.pattern_type = "fastapi_variable"
        THEN finish(d, <<>>, pattern_object)
        ELSE finish(d, <<>>, FastAPIApp(<<pattern_object.id>>))

\* an adapter that calls the resolved function once to check what it returns
\* and once more to use it
DeployFastapi_CallTwice(m, enable_auth, auth_token, protect_docs) ==
    LET d == detect_agent_pattern(m)
        pattern_object == d.pattern_object
        made == Call(pattern_object)
        twice == <<pattern_object.id, pattern_object.id>>
        finish(invoked, app_obj) ==
            Served(d, invoked, app_obj,
                   ApplyAuth(GetApp(app_obj), enable_auth, auth_token, protect_docs))
    IN  IF m = NoModule THEN Failed("ImportError", NoDetection, <<>>)
        ELSE IF d.exc # "none" THEN Failed(d.exc, d, <<>>)
        ELSE IF d.pattern_type \in FunctionCategories /\ Raises(pattern_object)
        THEN Failed("RuntimeError", d, <<pattern_object.id>>)
        ELSE IF d.pattern_type = "fastapi_function"
        THEN IF ~IsInstance(made, "FastAPIApp")
             THEN Failed("TypeError", d, <<pattern_object.id>>)
             ELSE finish(twice, made)
        ELSE IF d.pattern_type = "agent_function"
        THEN IF ~IsInstance(made, "Agent")
             THEN Failed("TypeError", d, <<pattern_object.id>>)
             ELSE finish(twice, FastAPIApp(<<made.id>>))
        ELSE IF d.pattern_type = "fastapi_variable"
        THEN finish(<<>>, pattern_object)
        ELSE finish(<<>>, FastAPIApp(<<pattern_object.id>>))

\* the try block of fastapi_app
DeployFastapi(m, enable_auth, auth_token, protect_docs) ==
    LET d == detect_agent_pattern(m)
        pattern_object == d.pattern_object
        made == Call(pattern_object)
        finish(invoked, app_obj) ==
            Served(d, invoked, app_obj,
                   ApplyAuth(GetApp(app_obj), enable_auth, auth_token, protect_docs))
    IN  IF m = NoModule THEN Failed("ImportError", NoDetection, <<>>)
        ELSE IF d.exc # "none" THEN Failed(d.exc, d, <<>>)
        ELSE IF d.pattern_type \in FunctionCategories /\ Raises(pattern_object)
        THEN Failed("RuntimeError", d, <<pattern_object.id>>)
        ELSE IF d.pattern_type = "fastapi_function"
        THEN IF ~IsInstance(made, "FastAPIApp")
             THEN Failed("TypeError", d, <<pattern_object.id>>)
             ELSE finish(<<pattern_object.id>>, made)
        ELSE IF d.pattern_type = "agent_function"
        THEN IF ~IsInstance(made, "Agent")
             THEN Failed("TypeError", d, <<pattern_object.id>>)
             ELSE finish(<<pattern_object.id>>, FastAPIApp(<<made.id>>))
        ELSE IF d.pattern_type = "fastapi_variable"
        THEN finish(<<>>, pattern_object)
        ELSE IF d.pattern_type = "agent_variable"
        THEN finish(<<>>, FastAPIApp(<<pattern_object.id>>))
        ELSE Failed("ValueError", d, <<>>)

\* the try block of agui_app
DeployAgui(m) ==
    LET d == detect_agui_pattern(m)
        pattern_object == d.pattern_object
        made == Call(pattern_object)
        finish(invoked, app_obj) ==
            Served(d, invoked, app_obj, Unwrapped(GetApp(app_obj)))
    IN  IF m = NoModule THEN Failed("ImportError", NoDetection, <<>>)
        ELSE IF d.exc # "none" THEN Failed(d.exc, d, <<>>)
        ELSE IF d.pattern_type \in FunctionCategories /\ Raises(pattern_object)
        THEN Failed("RuntimeError", d, <<pattern_object.id>>)
        ELSE IF d.pattern_type = "agui_function"
        THEN IF ~IsInstance(made, "AGUIApp")
             THEN Failed("TypeError", d, <<pattern_object.id>>)
             ELSE finish(<<pattern_object.id>>, made)
        ELSE IF d.pattern_type = "agent_function"
        THEN IF ~IsInstance(made, "Agent")
             THEN Failed("TypeError", d, <<pattern_object.id>>)
             ELSE finish(<<pattern_object.id>>, AGUIAppOfAgent(made.id))
        ELSE IF d.pattern_type = "team_function"
        THEN IF ~IsInstance(made, "Team")
             THEN Failed("TypeError", d, <<pattern_object.id>>)
             ELSE finish(<<pattern_object.id>>, AGUIAppOfTeam(made.id))
        ELSE IF d.pattern_type = "agui_variable"
        THEN finish(<<>>, pattern_object)
        ELSE IF d.pattern_type = "agent_variable"
        THEN finish(<<>>, AGUIAppOfAgent(pattern_object.id))
        ELSE IF d.pattern_type = "team_variable"
        THEN finish(<<>>, AGUIAppOfTeam(pattern_object.id))
        ELSE Failed("ValueError", d, <<>>)

----------------------------------------------------------------------------
(* TokenAuthMiddleware.__call__ *)

\* a byte no UTF-8 text contains
BadByte == "0xFF"

hdr_prefix == <<"B", "e", "a", "r", "e", "r", " ">>

\* bytes.decode("utf-8") raises UnicodeDecodeError on such a byte
DecodeRaises(bytes) == \E i \in 1..Len(bytes) : bytes[i] = BadByte

\* bytes.decode("utf-8") of ASCII bytes: the same characters as a str
Decode(bytes) == [i \in 1..Len(bytes) |-> bytes[i]]

\* values of the Authorization header the generated requests carry
AuthValues ==
    { <<>>,
      hdr_prefix \o tok_secret,
      hdr_prefix \o tok_wrong,
      hdr_prefix \o tok_secret \o <<"x">>,
      hdr_prefix,
      Lower(hdr_prefix) \o tok_secret,
      tok_secret,
      <<BadByte>> }

\* the header pairs of a scope: (name, value), names in lower case
HeaderPairs ==
    {<<"authorization", v>> : v \in AuthValues} \cup {<<"accept", <<"a", "n", "y">>>>}

HeaderLists == UNION { [1..l -> HeaderPairs] : l \in 0..MaxHeaders }

Scopes ==
    [type : {"http", "websocket"}, path : Paths, headers : HeaderLists]
        \cup {[type |-> "lifespan", path |-> "", headers |-> <<>>]}

NoScope == [type |-> "none", path |-> "", headers |-> <<>>]

\* dict(scope["headers"]).get(name): the value of the last pair with that
\* name, None when there is none
HeaderGet(headers, name) ==
    LET at == {i \in 1..Len(headers) : headers[i][1] = name}
    IN  IF at = {} THEN None
        ELSE Some(headers[CHOOSE i \in at : \A j \in at : j <= i][2])

Message(type, status, content_type, body) ==
    [type |-> type, status |-> status, content_type |-> content_type, body |-> body]

NoBody == [error |-> "", message |-> "", hint |-> ""]

\* the two messages of _send_auth_error
ErrorStart == Message("http.response.start", 401, "application/json", NoBody)

\* a body without the hint
ErrorBody_NoHint(message) ==
    Message("http.response.body", 0, "",
            [error |-> "Authentication required", message |-> message])

ErrorBody(message) ==
    Message("http.response.body", 0, "",
            [error |-> "Authentication required", message |-> message,
             hint |-> "Include 'Authorization: Bearer <your-token>' header"])

\* what __call__ decides for a scope: "forward" (await self.app),
\* "reject" with a message (await self._send_auth_error) or "raise"
Decision(kind, message) == [kind |-> kind, message |-> message]

\* a middleware that keeps the headers of the request it saw last in the
\* instance: a coroutine entering while another one is in flight reads the
\* other one's headers
Decide_SharedHeaders(self, scope) ==
    LET others == {j \in DOMAIN inflight : inflight[j].rpc # "idle"}
        seen == IF others = {} THEN scope.headers
                ELSE inflight[CHOOSE j \in others : TRUE].scope.headers
        auth_header == HeaderGet(seen, "authorization")
    IN  IF scope.type # "http" THEN Decision("forward", "")
        ELSE IF scope.path \in self.public_endpoints THEN Decision("forward", "")
        ELSE IF auth_header.none \/ auth_header.s = <<>>
        THEN Decision("reject", "Missing Authorization header")
        ELSE IF DecodeRaises(auth_header.s)
        THEN Decision("raise", "UnicodeDecodeError")
        ELSE IF ~StartsWith(auth_header.s, hdr_prefix)
        THEN Decision("reject",
                "Invalid Authorization header format. Expected: Bearer <token>")
        ELSE IF Some(SliceFrom(auth_header.s, 7)) # self.token
        THEN Decision("reject", "Invalid authentication token")
        ELSE Decision("forward", "")

\* a middleware that checks the scopes of every type
Decide_AllScopes(self, scope) ==
    IF scope.path \in self.public_endpoints THEN Decision("forward", "")
    ELSE
        LET auth_header == HeaderGet(scope.headers, "authorization")
        IN  IF auth_header.none \/ auth_header.s = <<>>
            THEN Decision("reject", "Missing Authorization header")
            ELSE IF DecodeRaises(auth_header.s)
            THEN Decision("raise", "UnicodeDecodeError")
            ELSE IF ~StartsWith(Decode(auth_header.s), hdr_prefix)
            THEN Decision("reject",
                    "Invalid Authorization header format. Expected: Bearer <token>")
            ELSE IF Some(SliceFrom(Decode(auth_header.s), 7)) # self.token
            THEN Decision("reject", "Invalid authentication token")
            ELSE Decision("forward", "")

\* TokenAuthMiddleware.__call__ up to the call it ends in
Decide(self, scope) ==
    IF scope.type # "http" THEN Decision("forward", "")
    ELSE IF scope.path \in self.public_endpoints THEN Decision("forward", "")
    ELSE
        LET auth_header == HeaderGet(scope.headers, "authorization")
        IN  IF auth_header.none \/ auth_header.s = <<>>
            THEN Decision("reject", "Missing Authorization header")
            ELSE IF DecodeRaises(auth_header.s)
            THEN Decision("raise", "UnicodeDecodeError")
            ELSE
                LET auth_str == Decode(auth_header.s)
                    provided_token == Some(SliceFrom(auth_str, 7))
                IN  IF ~StartsWith(auth_str, hdr_prefix)
                    THEN Decision("reject",
                            "Invalid Authorization header format. Expected: Bearer <token>")
                    ELSE IF provided_token # self.token
                    THEN Decision("reject", "Invalid authentication token")
                    ELSE Decision("forward", "")

\* a scope arrives at the served surface; __call__ runs up to its first await
\* that sends something: the wrapped application is called, or the first
\* message of the 401 response is sent, or an exception escapes
Receive ==
    /\ rpc = "idle"
    /\ \E scope \in Scopes :
        LET d == IF mw.kind = "TokenAuthMiddleware" THEN Decide(mw, scope)
                 ELSE Decision("forward", "")
        IN  /\ req' = scope
            /\ app_calls' = IF d.kind = "forward" THEN 1 ELSE 0
            /\ sent' = IF d.kind = "reject" THEN <<ErrorStart>> ELSE <<>>
            /\ raised' = IF d.kind = "raise" THEN d.message ELSE "none"
            /\ rpc' = IF d.kind = "reject" THEN d.message ELSE "done"
    /\ UNCHANGED <<build, inflight, resolutions, script, agent_module, pc, result, mw>>

\* the second send of _send_auth_error
SendBody ==
    /\ rpc \notin {"idle", "done"}
    /\ sent' = Append(sent, ErrorBody(rpc))
    /\ rpc' = "done"
    /\ UNCHANGED <<build, inflight, resolutions, script, agent_module, pc, result, mw, req, app_calls, raised>>

\* the request is over; the surface waits for the next one
Finish ==
    /\ rpc = "done"
    /\ rpc' = "idle"
    /\ req' = NoScope
    /\ sent' = <<>>
    /\ app_calls' = 0
    /\ raised' = "none"
    /\ UNCHANGED <<build, inflight, resolutions, script, agent_module, pc, result, mw>>

----------------------------------------------------------------------------
(* load_requirements *)

\* the characters str.strip() removes
Whitespace == {" ", "\t", "\n"}

\* s.strip()
Strip(s) ==
    LET keep == {i \in 1..Len(s) : s[i] \notin Whitespace}
    IN  IF keep = {} THEN <<>>
        ELSE SubSeq(s, CHOOSE i \in keep : \A j \in keep : i <= j,
                       CHOOSE i \in keep : \A j \in keep : j <= i)

\* s.split('#')[0]
BeforeHash(s) ==
    LET at == {i \in 1..Len(s) : s[i] = "#"}
    IN  IF at = {} THEN s
        ELSE SubSeq(s, 1, (CHOOSE i \in at : \A j \in at : i <= j) - 1)

pre_comment   == <<"#">>
pre_editable  == <<"-", "e", " ">>
pre_recursive == <<"-", "r", " ">>

\* a loop body that adds the line with its inline comment
ParseLine_KeepComment(raw) ==
    LET line == Strip(raw)
    IN  IF line = <<>> \/ StartsWith(line, pre_comment) THEN None
        ELSE IF StartsWith(line, pre_editable) THEN None
        ELSE IF StartsWith(line, pre_recursive) THEN None
        ELSE Some(line)

\* the loop body of load_requirements: the dependency a line of the file
\* adds, None when it adds none
ParseLine(raw) ==
    LET line == Strip(raw)
    IN  IF line = <<>> \/ StartsWith(line, pre_comment) THEN None
        ELSE IF StartsWith(line, pre_editable) THEN None
        ELSE IF StartsWith(line, pre_recursive) THEN None
        ELSE LET cleaned == IF Contains(line, pre_comment)
                            THEN Strip(BeforeHash(line))
                            ELSE line
             IN  IF cleaned # <<>> THEN Some(cleaned) ELSE None

RECURSIVE ReadLines(_, _, _)
\* the for loop over the lines of the file, from position i on
ReadLines(lines, i, dependencies) ==
    IF i > Len(lines) THEN dependencies
    ELSE LET dep == ParseLine(lines[i])
         IN  ReadLines(lines, i + 1,
                 IF dep.none THEN dependencies ELSE dependencies \cup {dep.s})

pkg_GitPython == <<"G", "i", "t", "P", "y", "t", "h", "o", "n">>
pkg_ag_ui_protocol == <<"a", "g", "-", "u", "i", "-", "p", "r", "o", "t", "o", "c", "o", "l">>

\* the packages added before the file is read
BaselinePackages(s) ==
    IF s = "fastapi" THEN {pkg_GitPython} ELSE {pkg_GitPython, pkg_ag_ui_protocol}

\* the size the set has to exceed: len(dependencies) <= 1, <= 2 in the AG-UI
\* script
BaselineCount(s) == IF s = "fastapi" THEN 1 ELSE 2

\* a text file, a file that is not there, a file that cannot be read
File(lines) == [exists |-> TRUE, readable |-> TRUE, lines |-> lines]
MissingFile == [exists |-> FALSE, readable |-> FALSE, lines |-> <<>>]
UnreadableFile == [exists |-> TRUE, readable |-> FALSE, lines |-> <<>>]

\* what load_requirements ends in
Loaded(deps) == [status |-> "returned", exc |-> "none", deps |-> deps]
LoadFailed(exc) == [status |-> "raised", exc |-> exc, deps |-> <<>>]
NotLoaded == [status |-> "none", exc |-> "none", deps |-> <<>>]

\* load_requirements() of the script s
LoadRequirements(file, s) ==
    IF ~file.exists THEN LoadFailed("FileNotFoundError")
    ELSE IF ~file.readable THEN LoadFailed("RuntimeError")
    ELSE LET dependencies == ReadLines(file.lines, 1, BaselinePackages(s))
         IN  IF Cardinality(dependencies) <= BaselineCount(s)
             THEN LoadFailed("ValueError")
             ELSE Loaded(SortedSeq(dependencies))

\* the lines a generated requirements.txt is made of
RequirementLines ==
    { <<"a", "g", "n", "o", "\n">>,
      <<" ", " ", "a", "g", "n", "o">>,
      <<"\n">>,
      <<"#", " ", "a", "g", "n", "o", "\n">>,
      <<"\t", "#", "x">>,
      <<"-", "e", " ", ".", "\n">>,
      <<"-", "r", " ", "b", "\n">>,
      <<"a", "b", " ", "#", " ", "c", "\n">>,
      <<"G", "i", "t", "P", "y", "t", "h", "o", "n", "\n">>,
      <<"a", "g", "-", "u", "i", "-", "p", "r", "o", "t", "o", "c", "o", "l", "\n">>,
      <<"Z", "z">>,
      <<"-", "e", "\t", "x">>,
      <<"a", "#", "b", "#", "c">> }

RequirementFiles ==
    {MissingFile, UnreadableFile}
        \cup {File(l) : l \in UNION {[1..n -> RequirementLines] : n \in 0..MaxLines}}

----------------------------------------------------------------------------
(* validate_auth_configuration *)

RECURSIVE Join(_)
\* '\n'.join(lines): the text of a file with these lines
Join(lines) ==
    IF Len(lines) = 0 THEN <<>>
    ELSE IF Len(lines) = 1 THEN lines[1]
    ELSE lines[1] \o <<"\n">> \o Join(Tail(lines))

RECURSIVE Split(_)
\* s.split('\n')
Split(s) ==
    LET at == {i \in 1..Len(s) : s[i] = "\n"}
        first == CHOOSE i \in at : \A j \in at : i <= j
    IN  IF at = {} THEN <<s>>
        ELSE <<SubSeq(s, 1, first - 1)>> \o Split(SubSeq(s, first + 1, Len(s)))

txt_AUTH_TOKEN == <<"A", "U", "T", "H", "_", "T", "O", "K", "E", "N", "=">>

\* a .env file with this text
EnvFile(content) == [exists |-> TRUE, content |-> content]

\* what validate_auth_configuration ends in
NotValidated == [status |-> "none", exc |-> "none", message |-> ""]
Passed == [status |-> "passed", exc |-> "none", message |-> ""]
Invalid(message) == [status |-> "raised", exc |-> "ValueError", message |-> message]

\* a validation that is content with the text AUTH_TOKEN= anywhere in the file
ValidateAuthConfiguration_TextOnly(enabled, file) ==
    IF ~enabled THEN Passed
    ELSE IF ~file.exists THEN Invalid("no .env file found")
    ELSE IF ~Contains(file.content, txt_AUTH_TOKEN)
    THEN Invalid("AUTH_TOKEN not found in .env file")
    ELSE Passed

\* validate_auth_configuration()
ValidateAuthConfiguration(enabled, file) ==
    IF ~enabled THEN Passed
    ELSE IF ~file.exists THEN Invalid("no .env file found")
    ELSE
        LET env_content == file.content
            lines == Split(env_content)
            active_auth_tokens ==
                SelectSeq(lines,
                    LAMBDA line : /\ StartsWith(Strip(line), txt_AUTH_TOKEN)
                                  /\ ~StartsWith(Strip(line), pre_comment))
        IN  IF ~Contains(env_content, txt_AUTH_TOKEN)
            THEN Invalid("AUTH_TOKEN not found in .env file")
            ELSE IF active_auth_tokens = <<>>
            THEN Invalid("AUTH_TOKEN is commented out in .env file")
            ELSE Passed

\* the lines a generated .env file is made of
EnvLines ==
    { <<"A", "U", "T", "H", "_", "T", "O", "K", "E", "N", "=", "s">>,
      <<"#", "A", "U", "T", "H", "_", "T", "O", "K", "E", "N", "=", "s">>,
      <<" ", " ", "#", " ", "A", "U", "T", "H", "_", "T", "O", "K", "E", "N", "=", "s">>,
      <<" ", "A", "U", "T", "H", "_", "T", "O", "K", "E", "N", "=", "s", "\t">>,
      <<"K", "=", "v">>,
      <<"M", "Y", "_", "A", "U", "T", "H", "_", "T", "O", "K", "E", "N", "=", "s">>,
      <<"A", "U", "T", "H", "_", "T", "O", "K", "E", "N">>,
      <<>>,
      <<"A", "U", "T", "H", "_", "T", "O", "K", "E", "N", "=">>,
      <<"e", "x", "p", "o", "r", "t", " ", "A", "U", "T", "H", "_", "T", "O", "K", "E", "N", "=", "s">> }

EnvFiles ==
    {MissingFile}
        \cup {EnvFile(Join(l)) : l \in UNION {[1..n -> EnvLines] : n \in 0..MaxLines}}

\* no deployment-time check is modelled
NoBuild ==
    /\ requirements_txt = MissingFile
    /\ python_dependencies = NotLoaded
    /\ auth_enabled = ENABLE_AUTH
    /\ env_file = MissingFile
    /\ validation = NotValidated

----------------------------------------------------------------------------
(* The deployment functions as actions *)

\* AUTH_TOKEN in the container the deployment specification runs in
DeployToken == Some(tok_secret)

\* fastapi_app()
fastapi_app ==
    /\ script = "fastapi"
    /\ pc = "start"
    /\ result' = DeployFastapi(agent_module, ENABLE_AUTH, DeployToken, PROTECT_DOCS)
    /\ pc' = "done"
    /\ UNCHANGED <<build, inflight, resolutions, script, agent_module, mw, req, rpc, sent, app_calls, raised>>

\* agui_app()
agui_app ==
    /\ script = "agui"
    /\ pc = "start"
    /\ result' = DeployAgui(agent_module)
    /\ pc' = "done"
    /\ UNCHANGED <<build, inflight, resolutions, script, agent_module, mw, req, rpc, sent, app_calls, raised>>

\* the coroutines of __call__ that may run at the same time
Requests == 1..MaxRequests

\* a coroutine slot with no request: the locals of one __call__
IdleCall ==
    [scope |-> NoScope, rpc |-> "idle", sent |-> <<>>, app_calls |-> 0,
     raised |-> "none"]

\* the resolver calls that run on the one module
Resolutions == {"first", "second"}

\* the locals of a resolver call that has not started
NotStarted ==
    [pc |-> "start", available_names |-> <<>>, i |-> 1, lists |-> <<>>,
     outcome |-> NoDetection]

NoRequest ==
    /\ req = NoScope
    /\ rpc = "idle"
    /\ sent = <<>>
    /\ app_calls = 0
    /\ raised = "none"
    /\ inflight = [i \in Requests |-> IdleCall]
    /\ resolutions = [k \in Resolutions |-> NotStarted]

\* a deployment script starts on a module
Init ==
    /\ script \in {"fastapi", "agui"}
    /\ IsModule(agent_module, script) \/ agent_module = NoModule
    /\ pc = "start"
    /\ result = NotRun
    /\ mw = NoSurface
    /\ NoRequest
    /\ NoBuild

Next == fastapi_app \/ agui_app

Spec == Init /\ [][Next]_vars

\* the module the authentication specification deploys: one create_fastapi_app
AuthModule ==
    Module([n \in {n_create_fastapi_app} |-> Function("f_fastapi", ThisModule, "app")],
           FALSE, <<>>)

\* fastapi_app has returned, under any configuration; requests arrive
InitAuth ==
    /\ script = "fastapi"
    /\ agent_module = AuthModule
    /\ pc = "done"
    /\ \E enable_auth \in BOOLEAN, protect_docs \in BOOLEAN, auth_token \in EnvTokens :
          result = DeployFastapi(agent_module, enable_auth, auth_token, protect_docs)
    /\ mw = result.app_instance
    /\ NoRequest
    /\ NoBuild

NextAuth == Receive \/ SendBody \/ Finish

SpecAuth == InitAuth /\ [][NextAuth]_vars

\* the module the AG-UI script deploys here: one create_agui_app
AguiModule ==
    Module([n \in {n_create_agui_app} |-> Function("f_agui", ThisModule, "agui")],
           FALSE, <<>>)

\* either deployment function has returned, fastapi_app with ENABLE_AUTH set
\* either way (the AG-UI script has no such setting); requests arrive
InitSurface ==
    /\ script \in {"fastapi", "agui"}
    /\ agent_module = (IF script = "fastapi" THEN AuthModule ELSE AguiModule)
    /\ pc = "done"
    /\ auth_enabled \in (IF script = "fastapi" THEN BOOLEAN ELSE {FALSE})
    /\ IF script = "fastapi"
       THEN \E protect_docs \in BOOLEAN, auth_token \in EnvTokens :
                result = DeployFastapi(agent_module, auth_enabled, auth_token,
                                       protect_docs)
       ELSE result = DeployAgui(agent_module)
    /\ mw = result.app_instance
    /\ NoRequest
    /\ requirements_txt = MissingFile
    /\ python_dependencies = NotLoaded
    /\ env_file = MissingFile
    /\ validation = NotValidated

SpecSurface == InitSurface /\ [][NextAuth]_vars

\* scopes of the requests that arrive concurrently
ConcurrentScopes ==
    { [type |-> t, path |-> p, headers |-> h] :
        t \in {"http"}, p \in {"/health", "/docs", "/v1/runs"},
        h \in { <<>>,
                << <<"authorization", hdr_prefix \o tok_secret>> >>,
                << <<"accept", <<"a", "n", "y">>>>,
                   <<"authorization", hdr_prefix \o tok_secret>> >>,
                << <<"authorization", hdr_prefix \o tok_wrong>> >>,
                << <<"authorization", tok_secret>> >>,
                << <<"authorization", <<BadByte>>>> >> } }
    \cup { [type |-> "websocket", path |-> "/v1/runs", headers |-> <<>>] }

\* coroutine i enters __call__ with a scope and runs to its first await
CallEnter(i) ==
    /\ inflight[i].rpc = "idle"
    /\ \E scope \in ConcurrentScopes :
        LET d == IF mw.kind = "TokenAuthMiddleware" THEN Decide(mw, scope)
                 ELSE Decision("forward", "")
        IN  inflight' = [inflight EXCEPT ![i] =
                [scope |-> scope,
                 rpc |-> IF d.kind = "reject" THEN d.message ELSE "done",
                 sent |-> IF d.kind = "reject" THEN <<ErrorStart>> ELSE <<>>,
                 app_calls |-> IF d.kind = "forward" THEN 1 ELSE 0,
                 raised |-> IF d.kind = "raise" THEN d.message ELSE "none"]]
    /\ UNCHANGED <<script, agent_module, pc, result, mw, req, rpc, sent,
                   app_calls, raised, resolutions, build>>

\* coroutine i resumes in _send_auth_error and sends the body
CallSendBody(i) ==
    /\ inflight[i].rpc \notin {"idle", "done"}
    /\ inflight' = [inflight EXCEPT
            ![i].sent = Append(@, ErrorBody(inflight[i].rpc)),
            ![i].rpc = "done"]
    /\ UNCHANGED <<script, agent_module, pc, result, mw, req, rpc, sent,
                   app_calls, raised, resolutions, build>>

\* coroutine i is over
CallReturn(i) ==
    /\ inflight[i].rpc = "done"
    /\ inflight' = [inflight EXCEPT ![i] = IdleCall]
    /\ UNCHANGED <<script, agent_module, pc, result, mw, req, rpc, sent,
                   app_calls, raised, resolutions, build>>

\* fastapi_app has returned with authentication enabled; requests arrive at
\* the one middleware instance concurrently
InitConcurrent ==
    /\ script = "fastapi"
    /\ agent_module = AuthModule
    /\ pc = "done"
    /\ \E protect_docs \in BOOLEAN, auth_token \in EnvTokens :
          result = DeployFastapi(agent_module, TRUE, auth_token, protect_docs)
    /\ mw = result.app_instance
    /\ NoRequest
    /\ NoBuild

NextConcurrent ==
    \E i \in Requests : CallEnter(i) \/ CallSendBody(i) \/ CallReturn(i)

SpecConcurrent == InitConcurrent /\ [][NextConcurrent]_vars

\* the modules the side-by-side resolutions run on: at most two exports
IsSmallModule(m, s) ==
    \E E \in SUBSET ExportPool(s) :
        /\ Cardinality(E) <= 2
        /\ IsExportSet(E)
        /\ \/ m = Module(AttrDict(E), FALSE, <<>>)
           \/ \E l \in AllLists(AttrDict(E)) : m = Module(AttrDict(E), TRUE, l)

\* the categories of the resolver of this script
CategoriesOf(s) == IF s = "fastapi" THEN AgentCategories ELSE AguiCategories

\* call k reads __all__ or dir() and creates its empty candidate lists
ResolveStart(k) ==
    /\ resolutions[k].pc = "start"
    /\ resolutions' = [resolutions EXCEPT
            ![k].available_names = AvailableNames(agent_module),
            ![k].lists = EmptyLists(CategoriesOf(script)),
            ![k].pc = "loop"]
    /\ UNCHANGED <<script, agent_module, pc, result, mw, req, rpc, sent,
                   app_calls, raised, inflight, build>>

\* one pass of the for loop of call k: getattr, classify, append
ResolveLoop(k) ==
    LET r == resolutions[k]
        name == r.available_names[r.i]
        c == IF script = "fastapi" THEN ClassifyAgent(agent_module, name)
             ELSE ClassifyAgui(agent_module, name)
    IN  /\ r.pc = "loop"
        /\ r.i <= Len(r.available_names)
        /\ resolutions' = [resolutions EXCEPT
                ![k].lists = IF c = "none" THEN @
                             ELSE [@ EXCEPT ![c] =
                                     Append(@, <<name, agent_module.attrs[name]>>)],
                ![k].i = @ + 1]
        /\ UNCHANGED <<script, agent_module, pc, result, mw, req, rpc, sent,
                       app_calls, raised, inflight, build>>

\* the priority cascade of call k over the lists it collected
ResolveSelect(k) ==
    LET r == resolutions[k]
        lists == r.lists
    IN  /\ r.pc = "loop"
        /\ r.i > Len(r.available_names)
        /\ resolutions' = [resolutions EXCEPT
                ![k].pc = "done",
                ![k].outcome =
                    IF script = "fastapi"
                    THEN Select("fastapi_function", lists["fastapi_function"],
                         Select("agent_function", lists["agent_function"],
                         Select("fastapi_variable", lists["fastapi_variable"],
                         Select("agent_variable", lists["agent_variable"],
                         NoPatternFound(4)))))
                    ELSE Select("agui_function", lists["agui_function"],
                         Select("agent_function", lists["agent_function"],
                         Select("team_function", lists["team_function"],
                         Select("agui_variable", lists["agui_variable"],
                         Select("agent_variable", lists["agent_variable"],
                         Select("team_variable", lists["team_variable"],
                         NoPatternFound(6)))))))]
        /\ UNCHANGED <<script, agent_module, pc, result, mw, req, rpc, sent,
                       app_calls, raised, inflight, build>>

\* two resolver calls are about to run on one imported module
InitResolve ==
    /\ script \in {"fastapi", "agui"}
    /\ IsSmallModule(agent_module, script)
    /\ pc = "start"
    /\ result = NotRun
    /\ mw = NoSurface
    /\ NoRequest
    /\ NoBuild

NextResolve ==
    \E k \in Resolutions : ResolveStart(k) \/ ResolveLoop(k) \/ ResolveSelect(k)

SpecResolve == InitResolve /\ [][NextResolve]_vars

\* load_requirements(), run when the script is loaded
load_requirements ==
    /\ python_dependencies = NotLoaded
    /\ python_dependencies' = LoadRequirements(requirements_txt, script)
    /\ UNCHANGED <<script, agent_module, pc, result, mw, req, rpc, sent,
                   app_calls, raised, inflight, resolutions,
                   requirements_txt, auth_enabled, env_file, validation>>

\* a script is loaded next to some requirements.txt
InitRequirements ==
    /\ script \in {"fastapi", "agui"}
    /\ agent_module = AuthModule
    /\ pc = "start"
    /\ result = NotRun
    /\ mw = NoSurface
    /\ NoRequest
    /\ requirements_txt \in RequirementFiles
    /\ python_dependencies = NotLoaded
    /\ auth_enabled = ENABLE_AUTH
    /\ env_file = MissingFile
    /\ validation = NotValidated

NextRequirements == load_requirements

SpecRequirements == InitRequirements /\ [][NextRequirements]_vars

\* validate_auth_configuration(), run when the script is loaded
validate_auth_configuration ==
    /\ validation = NotValidated
    /\ validation' = ValidateAuthConfiguration(auth_enabled, env_file)
    /\ UNCHANGED <<script, agent_module, pc, result, mw, req, rpc, sent,
                   app_calls, raised, inflight, resolutions,
                   requirements_txt, python_dependencies, auth_enabled, env_file>>

\* the script is loaded with ENABLE_AUTH set either way, next to some .env
InitEnv ==
    /\ script = "fastapi"
    /\ agent_module = AuthModule
    /\ pc = "start"
    /\ result = NotRun
    /\ mw = NoSurface
    /\ NoRequest
    /\ requirements_txt = MissingFile
    /\ python_dependencies = NotLoaded
    /\ auth_enabled \in BOOLEAN
    /\ env_file \in EnvFiles
    /\ validation = NotValidated

NextEnv == validate_auth_configuration

SpecEnv == InitEnv /\ [][NextEnv]_vars

\* the names the loop bodies are tried on: the exact names, names meeting
\* the keywords of two categories, of one, of none, in another letter case,
\* and without the prefix
NamingNames ==
    { n_create_fastapi_app, n_create_agui_app, n_create_agent, n_create_team,
      n_create_fastapi_agent_app, n_create_agui_team_app, n_create_agent_team,
      n_create_AGENT, n_Create_agent, n_build_agent, n_create_app, n_main,
      n_financial_agent }

\* the values those names are bound to: a function of the module, an imported
\* function, an imported and a local class, instances of the recognized
\* classes and of a subclass, instances that can be called (their class
\* defines __call__; obj.__module__ is the module of the class), a str
NamingObjects ==
    { Function("f_local", ThisModule, "agent"),
      Function("f_imported", OtherModule, "agent"),
      Class("c_Agent", "agno.agent"),
      Class("c_Local", ThisModule),
      Instance("v_agent", "Agent"),
      Instance("v_sub", "FinancialAgent"),
      Instance("v_app", "FastAPIApp"),
      Instance("v_agui", "AGUIApp"),
      Instance("v_team", "Team"),
      Obj("v_callable", FALSE, TRUE, "FinancialAgent", ThisModule, "none"),
      Obj("v_callable_lib", FALSE, TRUE, "Agent", "agno.agent", "none"),
      Instance("v_str", "str") }

NamingExports == {Export(n, o) : n \in NamingNames, o \in NamingObjects}

\* modules without __all__ holding no, one or two of those exports
NamingModules ==
    {Module(<<>>, FALSE, <<>>)}
        \cup {Module(AttrDict({e}), FALSE, <<>>) : e \in NamingExports}
        \cup {Module(AttrDict({p[1], p[2]}), FALSE, <<>>) :
                p \in {q \in NamingExports \X NamingExports : q[1].name # q[2].name}}

\* a deployment script starts on one of those modules
InitClassify ==
    /\ script \in {"fastapi", "agui"}
    /\ agent_module \in NamingModules
    /\ pc = "start"
    /\ result = NotRun
    /\ mw = NoSurface
    /\ NoRequest
    /\ NoBuild

SpecClassify == InitClassify /\ [][Next]_vars

----------------------------------------------------------------------------
(* Vocabulary of the properties *)

\* the module was imported and the deployment function has run on it
Resolved == pc = "done" /\ agent_module # NoModule

\* what the resolver ended in
Detected == result.detected

\* categories of the running script, highest priority first
Categories == IF script = "fastapi" THEN AgentCategories ELSE AguiCategories

AppCategories ==
    {"fastapi_function", "agui_function", "fastapi_variable", "agui_variable"}

\* the category the running script's loop body puts a name in
Classify(name) ==
    IF script = "fastapi" THEN ClassifyAgent(agent_module, name)
    ELSE ClassifyAgui(agent_module, name)

\* the resolver of the running script on the names in a given order
DetectOver(names) ==
    IF script = "fastapi" THEN DetectAgentOver(agent_module, names)
    ELSE DetectAguiOver(agent_module, names)

\* the candidate name list of this resolution
NameList == AvailableNames(agent_module)

\* the positions of the name list holding a candidate of category c
Entries(c) == {i \in 1..Len(NameList) : Classify(NameList[i]) = c}

\* the names of the candidates of category c
CandidateNames(c) == {NameList[i] : i \in Entries(c)}

\* ranks of the categories that hold a candidate
NonEmptyRanks == {k \in 1..Len(Categories) : Entries(Categories[k]) # {}}

HasTop == NonEmptyRanks # {}

\* the highest-priority category holding a candidate
Top == Categories[CHOOSE k \in NonEmptyRanks : \A j \in NonEmptyRanks : k <= j]

\* the names a sequence lists
Range(seq) == {seq[i] : i \in 1..Len(seq)}

----------------------------------------------------------------------------
(* Properties of the resolvers *)

\* C1: whenever resolution succeeds, the returned category is the
\* highest-priority category holding a candidate and the returned candidate
\* is one of that category; lower categories do not change the outcome.
C1_HighestPriorityWins ==
    (Resolved /\ Detected.exc = "none") =>
        /\ HasTop
        /\ Detected.pattern_type = Top
        /\ Detected.pattern_name \in CandidateNames(Top)
        /\ Detected.pattern_object = agent_module.attrs[Detected.pattern_name]

\* create_fastapi_app resolved next to two create_*_agent functions
C1_Witness ==
    /\ Resolved
    /\ script = "fastapi"
    /\ Detected.exc = "none"
    /\ Detected.pattern_name = n_create_fastapi_app
    /\ Cardinality(CandidateNames("agent_function")) = 2

\* C2: when the highest-priority non-empty category holds two or more
\* candidates, resolution fails with the ValueError naming all of them; it
\* returns none of them and does not fall through to a lower category.
C2_AmbiguityFails ==
    (Resolved /\ HasTop /\ Cardinality(CandidateNames(Top)) >= 2) =>
        /\ Detected.exc = "ValueError"
        /\ Detected.pattern_type = Top
        /\ Range(Detected.names) = CandidateNames(Top)
        /\ Len(Detected.names) = Cardinality(Entries(Top))
        /\ Detected.pattern_object = NoObj
        /\ result.status = "raised"
        /\ result.exc = "ValueError"
        /\ result.app_instance = NoSurface

\* create_agent and create_trading_agent without __all__, next to a lower
\* category holding exactly one candidate
C2_Witness ==
    /\ Resolved
    /\ ~agent_module.has_all
    /\ Detected.exc = "ValueError"
    /\ Range(Detected.names) = {n_create_agent, n_create_trading_agent}
    /\ Cardinality(Entries("agent_variable")) = 1

\* C3: resolution ends in exactly one of three outcomes: a returned triple,
\* the ambiguity ValueError, or the ImportError listing the supported
\* patterns; the ImportError is raised exactly when no name is classified.
C3_ThreeOutcomes ==
    Resolved =>
        /\ Detected.exc \in {"none", "ValueError", "ImportError"}
        /\ (Detected.exc = "ImportError") <=> ~HasTop
        /\ Detected.exc = "ImportError" =>
              /\ Detected.shapes = Len(Categories)
              /\ result.status = "raised" /\ result.exc = "ImportError"
        /\ Detected.exc = "none" =>
              /\ Detected.pattern_type \in Range(Categories)
              /\ Detected.pattern_name \in Range(NameList)
              /\ Detected.pattern_object = agent_module.attrs[Detected.pattern_name]
        /\ Detected.exc = "ValueError" => Len(Detected.names) >= 2

\* a module with names to look at, none of them classified
C3_Witness ==
    /\ Resolved
    /\ Detected.exc = "ImportError"
    /\ Len(NameList) >= 2
    /\ \E n \in Range(NameList) : n \in DOMAIN agent_module.attrs

\* the candidate name set as the claim states it
NameSet ==
    IF agent_module.has_all THEN Range(agent_module.all)
    ELSE {n \in DOMAIN agent_module.attrs : n[1] # "_"}

\* C4: the candidate names are exactly those of __all__ when it is declared,
\* else exactly the attribute names without a leading underscore; a returned
\* name, and every name of an ambiguity error, is one of them.
C4_OnlyCandidateNames ==
    /\ Range(NameList) = NameSet
    /\ Resolved =>
        /\ Detected.exc = "none" => Detected.pattern_name \in NameSet
        /\ Range(Detected.names) \subseteq NameSet

\* __all__ selects create_agent although create_fastapi_app is defined too
C4_Witness ==
    /\ Resolved
    /\ script = "fastapi"
    /\ agent_module.has_all
    /\ n_create_fastapi_app \in DOMAIN agent_module.attrs
    /\ n_create_fastapi_app \notin NameSet
    /\ Detected.exc = "none"
    /\ Detected.pattern_name = n_create_agent

\* the names bound to a function another module defines
ImportedFunctions ==
    {n \in DOMAIN agent_module.attrs :
        /\ agent_module.attrs[n].type = "function"
        /\ agent_module.attrs[n].module # agent_module.name}

\* C5: a function defined in another module is in no category, also when
\* __all__ names it: it is neither returned nor named in an ambiguity error.
C5_ImportedNeverCandidate ==
    \A n \in ImportedFunctions :
        /\ Classify(n) = "none"
        /\ Resolved =>
            /\ Detected.pattern_name # n
            /\ n \notin Range(Detected.names)

\* __all__ names the re-exported create_agent next to a local factory
C5_Witness ==
    /\ Resolved
    /\ agent_module.has_all
    /\ n_create_agent \in ImportedFunctions
    /\ n_create_agent \in NameSet
    /\ Detected.exc = "none"
    /\ Detected.pattern_name = n_create_trading_agent

\* the orders a list of names can be enumerated in
Orderings(seq) ==
    { [i \in 1..Len(seq) |-> seq[p[i]]] :
        p \in {q \in [1..Len(seq) -> 1..Len(seq)] :
                 \A i, j \in 1..Len(seq) : i # j => q[i] # q[j]} }

\* C6: when the highest-priority non-empty category holds exactly one
\* candidate, the resolution over every order of the candidate names returns
\* the same (pattern_type, object, name).
C6_OrderIndependent ==
    (Resolved /\ HasTop /\ Cardinality(Entries(Top)) = 1) =>
        /\ Detected.exc = "none"
        /\ \A names \in Orderings(NameList) : DetectOver(names) = Detected

\* a list of three names, two of them candidates of different categories
C6_Witness ==
    /\ Resolved
    /\ HasTop
    /\ Cardinality(Entries(Top)) = 1
    /\ Len(NameList) = 3
    /\ Cardinality(NonEmptyRanks) >= 2
    /\ Classify(NameList[1]) \notin {Top, "none"}

\* the candidate names getattr succeeds on, in the order of the name list
FetchableNames ==
    SelectSeq(NameList, LAMBDA name : name \in DOMAIN agent_module.attrs)

\* C18: a name whose fetching raises (__all__ names an attribute the module
\* does not have) is skipped and resolution goes on over the other names:
\* the outcome is that of the resolution with the failing names removed from
\* the name list, and the error of the name is never what the resolver ends
\* in.
C18_FailingNameSkipped ==
    Resolved =>
        /\ Detected = DetectOver(FetchableNames)
        /\ Detected.exc \in {"none", "ValueError", "ImportError"}
        /\ Detected.exc = "none" => Detected.pattern_name \in Range(FetchableNames)
        /\ Range(Detected.names) \subseteq Range(FetchableNames)

\* __all__ lists a name the module does not have before create_agent, which
\* is resolved
C18_Witness ==
    /\ Resolved
    /\ script = "fastapi"
    /\ agent_module.has_all
    /\ agent_module.all = <<n_missing, n_create_agent>>
    /\ Detected.exc = "none"
    /\ Detected.pattern_name = n_create_agent
    /\ result.status = "returned"

----------------------------------------------------------------------------
(* Properties of the deployment adapter *)

\* the object the resolved entry point stands for: the value the function
\* returns for a Function category, the variable itself otherwise
Target ==
    IF Detected.pattern_type \in FunctionCategories
    THEN Call(Detected.pattern_object)
    ELSE Detected.pattern_object

\* the App the claim says is served for the resolved category
ExpectedApp ==
    CASE Detected.pattern_type \in AppCategories -> Target
      [] Detected.pattern_type \in {"agent_function", "agent_variable"} ->
            IF script = "fastapi" THEN FastAPIApp(<<Target.id>>)
            ELSE AGUIAppOfAgent(Target.id)
      [] Detected.pattern_type \in {"team_function", "team_variable"} ->
            AGUIAppOfTeam(Target.id)

\* the class a function of a Function category has to return
ReturnType(category) ==
    CASE category = "fastapi_function" -> "FastAPIApp"
      [] category = "agui_function"    -> "AGUIApp"
      [] category = "agent_function"   -> "Agent"
      [] category = "team_function"    -> "Team"

\* the resolved function raised when the deployment function called it
FactoryRaises ==
    /\ Detected.exc = "none"
    /\ Detected.pattern_type \in FunctionCategories
    /\ Raises(Detected.pattern_object)

\* the resolved function returned a value of another class than its category's
WrongReturn ==
    /\ Detected.exc = "none"
    /\ Detected.pattern_type \in FunctionCategories
    /\ ~Raises(Detected.pattern_object)
    /\ ~IsInstance(Call(Detected.pattern_object), ReturnType(Detected.pattern_type))

\* C7: after a successful resolution the adapter serves get_app() of the App
\* itself for an App category, of a new App holding exactly the one agent for
\* an Agent category, and of AGUIApp(team=team) for a Team category; a module
\* exporting only an Agent variable is served as a single-agent App.
C7_ServedApp ==
    (Resolved /\ Detected.exc = "none" /\ ~WrongReturn /\ ~FactoryRaises) =>
        /\ result.status = "returned"
        /\ result.app_obj = ExpectedApp
        /\ result.app_instance.app.of = ExpectedApp
        /\ result.app_instance.app.asgi = "FastAPI"
        /\ (Len(NameList) = 1 /\ IsInstance(Target, "Agent")
                /\ Detected.pattern_type \notin FunctionCategories) =>
              /\ Detected.pattern_type = "agent_variable"
              /\ script = "fastapi" => result.app_obj.agents = <<Target.id>>
              /\ script = "agui" => result.app_obj.agent = Target.id

\* a module exporting only financial_agent is served as a single-agent App
C7_Witness ==
    /\ Resolved
    /\ script = "fastapi"
    /\ DOMAIN agent_module.attrs = {n_financial_agent}
    /\ ~agent_module.has_all
    /\ Detected.pattern_type = "agent_variable"
    /\ result.status = "returned"
    /\ result.app_obj.agents = <<agent_module.attrs[n_financial_agent].id>>

\* C8: when the resolved function returns a value that is not an instance of
\* the class of its category, the adapter raises TypeError, returns no
\* application and invokes no other candidate.
C8_InvalidReturnType ==
    (Resolved /\ WrongReturn) =>
        /\ result.status = "raised"
        /\ result.exc = "TypeError"
        /\ result.app_instance = NoSurface
        /\ result.app_obj = NoObj
        /\ result.invoked = <<Detected.pattern_object.id>>

\* create_fastapi_app returns an Agent while an Agent variable is exported too
C8_Witness ==
    /\ Resolved
    /\ WrongReturn
    /\ Detected.pattern_type = "fastapi_function"
    /\ Entries("agent_variable") # {}
    /\ result.exc = "TypeError"

\* one of the steps import, resolve, invoke, type-check failed
DeployFailure ==
    \/ agent_module = NoModule
    \/ Detected.exc # "none"
    \/ FactoryRaises
    \/ WrongReturn

\* the exception that step raised
DeployException ==
    IF agent_module = NoModule THEN "ImportError"
    ELSE IF Detected.exc # "none" THEN Detected.exc
    ELSE IF FactoryRaises THEN "RuntimeError"
    ELSE "TypeError"

\* C14: in fastapi_app and agui_app every failure on the path import,
\* resolve, invoke, type-check, wrap (ImportError, the ambiguity ValueError,
\* TypeError or any other exception) is re-raised to the caller: no servable
\* application is returned, nothing is invoked a second time and no default
\* or other entry point is used instead.
C14_FailuresAreTerminal ==
    pc = "done" =>
        /\ result.status \in {"returned", "raised"}
        /\ DeployFailure <=> result.status = "raised"
        /\ result.status = "raised" =>
              /\ result.exc = DeployException
              /\ result.app_instance = NoSurface
              /\ result.app_obj = NoObj
              /\ Len(result.invoked) <= 1
              /\ Range(result.invoked) \subseteq {Detected.pattern_object.id}

\* create_agent raised while an Agent variable that could have been served is
\* exported too: the exception reached the caller
C14_Witness ==
    /\ pc = "done"
    /\ FactoryRaises
    /\ Entries("agent_variable") # {}
    /\ result.status = "raised"
    /\ result.exc = "RuntimeError"
    /\ result.invoked = <<"f_raises">>

\* the resolution succeeded and its winner is a function
WinnerIsFunction ==
    /\ Resolved
    /\ Detected.exc = "none"
    /\ Detected.pattern_type \in FunctionCategories

----------------------------------------------------------------------------
(* Properties of the authentication middleware *)

\* an http request went through the middleware and __call__ is over
Handled ==
    /\ mw.kind = "TokenAuthMiddleware"
    /\ req.type = "http"
    /\ rpc = "done"

\* the request carries the header "Bearer " followed by the configured token
CarriesToken ==
    /\ ~mw.token.none
    /\ \E i \in 1..Len(req.headers) :
          req.headers[i] = <<"authorization", hdr_prefix \o mw.token.s>>

\* the request was answered with status 401
Answered401 ==
    /\ Len(sent) >= 1
    /\ sent[1].type = "http.response.start"
    /\ sent[1].status = 401

\* the complete 401 response with this message, and nothing else
Rejected(message) ==
    /\ app_calls = 0
    /\ raised = "none"
    /\ sent = <<ErrorStart, ErrorBody(message)>>

\* the request went to the wrapped application, and nothing else
Forwarded ==
    /\ app_calls = 1
    /\ raised = "none"
    /\ sent = <<>>

\* C9: with authentication enabled a request reaches the wrapped application
\* only if its path is public or it carries "Bearer " followed by exactly the
\* configured token; every other request is answered with status 401 and
\* does not reach the wrapped application.
C9_OnlyAuthorizedReach ==
    Handled =>
        /\ app_calls > 0 => (req.path \in mw.public_endpoints \/ CarriesToken)
        /\ ~(req.path \in mw.public_endpoints \/ CarriesToken) =>
              (app_calls = 0 /\ Answered401)

\* C10: for a request to a non-public path exactly one outcome occurs, the
\* checks running in this order: no or empty header, "Missing Authorization
\* header"; a header not starting with "Bearer ", the format message; a token
\* differing from the configured one, "Invalid authentication token";
\* otherwise the request proceeds to the wrapped application.
C10_OrderedChecks ==
    (Handled /\ req.path \notin mw.public_endpoints) =>
        LET auth_header == HeaderGet(req.headers, "authorization")
        IN  IF auth_header.none \/ auth_header.s = <<>>
            THEN Rejected("Missing Authorization header")
            ELSE IF ~StartsWith(auth_header.s, hdr_prefix)
            THEN Rejected("Invalid Authorization header format. Expected: Bearer <token>")
            ELSE IF Some(SliceFrom(auth_header.s, 7)) # mw.token
            THEN Rejected("Invalid authentication token")
            ELSE Forwarded

\* C11: the public allowlist is {/health, /openapi.json} when protect_docs is
\* true and {/health, /openapi.json, /docs, /redoc} when it is false; a
\* request whose path equals an allowlisted path is forwarded without any
\* header check, whatever its Authorization header; a path that only extends
\* an allowlisted path (/health/x) is not public.
C11_PublicAllowlist ==
    mw.kind = "TokenAuthMiddleware" =>
        /\ mw.public_endpoints =
              IF mw.protect_docs THEN {"/health", "/openapi.json"}
              ELSE {"/health", "/openapi.json", "/docs", "/redoc"}
        /\ (Handled /\ req.path \in mw.public_endpoints) => Forwarded
        /\ "/health/x" \notin mw.public_endpoints
        /\ (Handled /\ req.path = "/health/x" /\ ~CarriesToken) => app_calls = 0

\* a request for /docs with an undecodable Authorization header was forwarded
\* by a middleware that does not protect the documentation
C11_Witness ==
    /\ Handled
    /\ ~mw.protect_docs
    /\ req.path = "/docs"
    /\ req.headers = << <<"authorization", <<BadByte>>>> >>
    /\ Forwarded

\* C20: on rejection the middleware sends exactly two ASGI messages, in
\* order: http.response.start with status 401 and a JSON content type, then
\* http.response.body carrying a JSON object with exactly the keys error,
\* message and hint, and it never calls the wrapped application; on
\* acceptance it calls the wrapped application exactly once and sends no
\* message of its own.
C20_TwoMessagesOrOneCall ==
    (mw.kind = "TokenAuthMiddleware" /\ rpc # "idle") =>
        /\ Len(sent) <= 2
        /\ Len(sent) >= 1 =>
              /\ sent[1].type = "http.response.start"
              /\ sent[1].status = 401
              /\ sent[1].content_type = "application/json"
              /\ app_calls = 0
        /\ Len(sent) = 2 =>
              /\ sent[2].type = "http.response.body"
              /\ DOMAIN sent[2].body = {"error", "message", "hint"}
        /\ app_calls <= 1
        /\ app_calls = 1 => sent = <<>>
        /\ (rpc = "done" /\ raised = "none") =>
              \/ app_calls = 1 /\ sent = <<>>
              \/ app_calls = 0 /\ Len(sent) = 2

\* a request with a wrong token was answered with the two messages and did
\* not reach the wrapped application
C20_Witness ==
    /\ Handled
    /\ req.path = "/v1/runs"
    /\ req.headers = << <<"authorization", hdr_prefix \o tok_wrong>> >>
    /\ Len(sent) = 2
    /\ sent[2].body.message = "Invalid authentication token"
    /\ app_calls = 0

\* C27: the middleware enforces the token on scopes of type http only: a
\* scope of another type (websocket, lifespan) is forwarded to the wrapped
\* application exactly once, with no allowlist or header check and no
\* message sent, also when its path is not public and it carries no token,
\* a wrong one or an undecodable header.
C27_OnlyHttpChecked ==
    (mw.kind = "TokenAuthMiddleware" /\ req.type \notin {"http", "none"}) =>
        /\ rpc = "done"
        /\ Forwarded

\* a websocket scope for /v1/runs with a wrong token was forwarded
C27_Witness ==
    /\ mw.kind = "TokenAuthMiddleware"
    /\ req.type = "websocket"
    /\ req.path = "/v1/runs"
    /\ req.path \notin mw.public_endpoints
    /\ req.headers = << <<"authorization", hdr_prefix \o tok_wrong>> >>
    /\ rpc = "done"
    /\ Forwarded

\* C28: with authentication enabled and no AUTH_TOKEN in the runtime
\* environment (the configured token is None) every http request to a
\* non-public path is rejected with 401, whatever its Authorization header:
\* no header value is accepted.
C28_MissingSecretFailsClosed ==
    (Handled /\ mw.token.none /\ req.path \notin mw.public_endpoints) =>
        /\ app_calls = 0
        /\ Answered401
        /\ Len(sent) = 2

\* the middleware asks an http request for this path for the token
Enforced(path) ==
    Decide(mw, [type |-> "http", path |-> path, headers |-> <<>>]).kind = "reject"

\* the routes of the served application that have a dependant
ApiRoutes == {r \in mw.app.routes : r.dependant}

\* C29: for either value of PROTECT_DOCS the paths left out when the routes
\* are given the security dependency are the public allowlist of the
\* middleware built in the same deployment: a route with a dependant has the
\* security dependency, once, if and only if the middleware enforces the
\* token on its path.
C29_ExemptionsMatchAllowlist ==
    mw.kind = "TokenAuthMiddleware" =>
        /\ \A r \in ApiRoutes :
              /\ r.security \in {0, 1}
              /\ r.security = 1 <=> Enforced(r.path)
              /\ r.security = 1 <=> r.path \notin mw.public_endpoints
        /\ {r.path : r \in {q \in ApiRoutes : q.security = 0}} = mw.public_endpoints
        /\ (Handled /\ raised = "none" /\ app_calls = 0) =>
              \A r \in ApiRoutes : r.path = req.path => r.security = 1

\* with PROTECT_DOCS true a request for /docs without a token was rejected,
\* and the /docs route carries the security dependency
C29_Witness ==
    /\ Handled
    /\ mw.protect_docs
    /\ req.path = "/docs"
    /\ req.headers = <<>>
    /\ Rejected("Missing Authorization header")
    /\ \E r \in ApiRoutes : r.path = "/docs" /\ r.security = 1
    /\ \E r \in ApiRoutes : r.path = "/health" /\ r.security = 0

----------------------------------------------------------------------------
(* Properties of concurrent requests *)

\* coroutine i has decided what happens to its request
Decided(i) == inflight[i].rpc = "done"

\* what the outcome of a request may depend on: the scope type, the path and
\* the Authorization header
OwnInput(i) ==
    <<inflight[i].scope.type, inflight[i].scope.path,
      HeaderGet(inflight[i].scope.headers, "authorization")>>

\* the outcome of a request: forwarded, a 401 with its message, or an
\* exception
Outcome(i) ==
    <<inflight[i].app_calls, inflight[i].sent, inflight[i].raised>>

\* C12: under any interleaving of concurrent requests through one middleware
\* instance the outcome of a request depends only on its own scope type,
\* path and Authorization header; no step of a request, a rejection
\* included, changes the token or the allowlist or anything of another
\* request.
C12_PerRequestOutcome ==
    /\ [](\A i, j \in Requests :
            (Decided(i) /\ Decided(j) /\ OwnInput(i) = OwnInput(j))
                => Outcome(i) = Outcome(j))
    /\ [][/\ mw' = mw
          /\ \A i, j \in Requests :
                i # j => (inflight'[i] = inflight[i] \/ inflight'[j] = inflight[j])]_vars

\* one request is half way through its 401 response while another one, for
\* the same path with the token, has been forwarded
C12_Witness ==
    /\ inflight[1].scope.path = "/v1/runs"
    /\ inflight[1].sent = <<ErrorStart>>
    /\ inflight[1].rpc = "Invalid authentication token"
    /\ inflight[2].scope.path = "/v1/runs"
    /\ Decided(2)
    /\ inflight[2].app_calls = 1

----------------------------------------------------------------------------
(* Properties of side-by-side resolutions *)

\* C13: resolution reads the module and never modifies it nor any state
\* shared between calls: two resolutions of the same module, one after the
\* other or interleaved in any order, end in the same outcome, the one a
\* resolution running alone ends in, and the module's names, values and
\* __all__ are unchanged at every step.
C13_ResolutionIsPure ==
    /\ [](\A k \in Resolutions :
            resolutions[k].pc = "done" =>
                /\ resolutions[k].outcome =
                      IF script = "fastapi" THEN detect_agent_pattern(agent_module)
                      ELSE detect_agui_pattern(agent_module)
                /\ \A o \in Resolutions :
                      resolutions[o].pc = "done" =>
                          resolutions[o].outcome = resolutions[k].outcome)
    /\ [][agent_module' = agent_module]_vars

\* both calls have ended, each having returned the one candidate of the
\* module, and the module is as it was
C13_Witness ==
    /\ \A k \in Resolutions :
          /\ resolutions[k].pc = "done"
          /\ resolutions[k].outcome.exc = "none"
          /\ resolutions[k].outcome.pattern_name = n_create_agent
    /\ agent_module.has_all
    /\ agent_module.all = <<n_create_agent>>
    /\ DOMAIN agent_module.attrs = {n_create_agent, n_financial_agent}

----------------------------------------------------------------------------
(* Properties of load_requirements *)

\* a line of requirements.txt that is a package line: after trimming it is
\* not empty, does not start with '#', '-e ' or '-r ', and has text before
\* its first '#'
ValidLine(raw) ==
    LET t == Strip(raw)
    IN  /\ t # <<>>
        /\ t[1] # "#"
        /\ ~StartsWith(t, <<"-", "e", " ">>)
        /\ ~StartsWith(t, <<"-", "r", " ">>)
        /\ Strip(BeforeHash(t)) # <<>>

\* the trimmed text of a package line before its first '#'
PackageOf(raw) == Strip(BeforeHash(Strip(raw)))

\* the package lines of the file
ValidLines ==
    {i \in 1..Len(requirements_txt.lines) : ValidLine(requirements_txt.lines[i])}

\* C15: the list load_requirements returns is sorted and free of duplicates
\* and holds exactly the baseline packages (GitPython, and ag-ui-protocol in
\* the AG-UI script) and the trimmed text before the first '#' of every
\* package line; the order of the lines does not matter.
C15_DependencyList ==
    python_dependencies.status = "returned" =>
        LET deps == python_dependencies.deps
        IN  /\ Range(deps) =
                  {pkg_GitPython}
                      \cup (IF script = "agui" THEN {pkg_ag_ui_protocol} ELSE {})
                      \cup {PackageOf(requirements_txt.lines[i]) : i \in ValidLines}
            /\ \A i, j \in 1..Len(deps) : i < j => StrLess(deps[i], deps[j])
            /\ \A o \in Orderings(requirements_txt.lines) :
                  LoadRequirements(File(o), script) = python_dependencies

\* "ab # c" and "Zz" give GitPython, Zz, ab
C15_Witness ==
    /\ script = "fastapi"
    /\ requirements_txt = File(<<<<"a", "b", " ", "#", " ", "c", "\n">>, <<"Z", "z">>>>)
    /\ python_dependencies =
          Loaded(<<pkg_GitPython, <<"Z", "z">>, <<"a", "b">>>>)

\* C16: load_requirements raises ValueError exactly when requirements.txt
\* holds no package line and returns the list whenever it holds one; a
\* missing requirements.txt raises FileNotFoundError.
C16_ValueErrorIffNoPackageLine ==
    python_dependencies.status # "none" =>
        /\ ~requirements_txt.exists =>
              python_dependencies = LoadFailed("FileNotFoundError")
        /\ (requirements_txt.exists /\ requirements_txt.readable) =>
              /\ ValidLines = {} <=> python_dependencies = LoadFailed("ValueError")
              /\ ValidLines # {} => python_dependencies.status = "returned"

----------------------------------------------------------------------------
(* Properties of validate_auth_configuration *)

\* validate_auth_configuration has run
Validated == validation # NotValidated

\* the lines of the .env file
EnvLinesOf == Split(env_file.content)

\* the file contains the text AUTH_TOKEN=
HasTokenText == Contains(env_file.content, txt_AUTH_TOKEN)

\* the text AUTH_TOKEN= of this line stands behind a '#'
CommentedOut(line) ==
    \E i \in 1..Len(line) :
        /\ line[i] = "#"
        /\ \A k \in 1..(Len(line) - Len(txt_AUTH_TOKEN) + 1) :
              SubSeq(line, k, k + Len(txt_AUTH_TOKEN) - 1) = txt_AUTH_TOKEN => i < k

\* AUTH_TOKEN appears in the file, and only commented out
OnlyCommentedOut ==
    /\ HasTokenText
    /\ \A n \in 1..Len(EnvLinesOf) :
          Contains(EnvLinesOf[n], txt_AUTH_TOKEN) => CommentedOut(EnvLinesOf[n])

\* some line of the file starts, after trimming, with AUTH_TOKEN=
ActiveLine ==
    \E n \in 1..Len(EnvLinesOf) : StartsWith(Strip(EnvLinesOf[n]), txt_AUTH_TOKEN)

----------------------------------------------------------------------------
(* Properties of the name heuristics and the type tests *)

\* the names bound to a function the module itself defines
ModuleFunctions ==
    {n \in DOMAIN agent_module.attrs :
        /\ agent_module.attrs[n].type = "function"
        /\ agent_module.attrs[n].module = agent_module.name}

\* the name, in lower case, contains the keyword
HasKeyword(n, kw) == Contains(Lower(n), kw)

\* the keywords of the App functions of the running script, and their category
AppKeywords == IF script = "fastapi" THEN {kw_fastapi, kw_app} ELSE {kw_agui, kw_app}

AppFunction == IF script = "fastapi" THEN "fastapi_function" ELSE "agui_function"

\* the candidate lists the loop of the running script ends with
Lists ==
    IF script = "fastapi"
    THEN CollectAgent(agent_module, NameList, 1, EmptyLists(AgentCategories))
    ELSE CollectAgui(agent_module, NameList, 1, EmptyLists(AguiCategories))

\* the categories whose list holds an entry for the name
ListsHolding(n) ==
    {c \in Range(Categories) : \E i \in 1..Len(Lists[c]) : Lists[c][i][1] = n}

\* C21: a function of the module whose name starts with 'create' and
\* contains both App keywords of the resolver and 'agent' or 'team' is in the
\* App function list only, never in the Agent or Team function list; every
\* function is in at most one list, with one entry.
C21_AppKeywordsFirst ==
    \A n \in ModuleFunctions :
        /\ ( /\ StartsWith(n, kw_create)
             /\ \A kw \in AppKeywords : HasKeyword(n, kw)
             /\ HasKeyword(n, kw_agent) \/ HasKeyword(n, kw_team) )
              => /\ Classify(n) = AppFunction
                 /\ n \in Range(NameList) => ListsHolding(n) = {AppFunction}
        /\ Cardinality(ListsHolding(n)) <= 1
        /\ \A c \in Range(Categories) :
              Cardinality({i \in 1..Len(Lists[c]) : Lists[c][i][1] = n}) <= 1

\* create_fastapi_agent_app next to create_agent: resolved as the FastAPIApp
\* function, the Agent function list holding create_agent alone
C21_Witness ==
    /\ Resolved
    /\ script = "fastapi"
    /\ ModuleFunctions = {n_create_fastapi_agent_app, n_create_agent}
    /\ Detected.exc = "none"
    /\ Detected.pattern_type = "fastapi_function"
    /\ Detected.pattern_name = n_create_fastapi_agent_app
    /\ NamesOf(Lists["agent_function"]) = <<n_create_agent>>

\* the keywords of a Function category
CategoryKeywords(c) ==
    CASE c = "fastapi_function" -> {kw_fastapi, kw_app}
      [] c = "agui_function"    -> {kw_agui, kw_app}
      [] c = "agent_function"   -> {kw_agent}
      [] c = "team_function"    -> {kw_team}

\* the Function categories of the running script
ScriptFunctionCategories == Range(Categories) \cap FunctionCategories

\* the name starts with 'create' and contains, in any letter case, the
\* keywords of the category
Matches(n, c) ==
    /\ StartsWith(n, kw_create)
    /\ \A kw \in CategoryKeywords(c) : HasKeyword(n, kw)

RecognizedType(c) ==
    CASE c = "fastapi_variable" -> "FastAPIApp"
      [] c = "agui_variable"    -> "AGUIApp"
      [] c = "agent_variable"   -> "Agent"
      [] c = "team_variable"    -> "Team"

\* the Variable categories of the running script
ScriptVariableCategories == Range(Categories) \ FunctionCategories

\* the names bound to a value that is neither callable nor a class
PlainValues ==
    {n \in DOMAIN agent_module.attrs :
        /\ ~agent_module.attrs[n].callable
        /\ ~agent_module.attrs[n].isclass}

\* C23: a value is in the list of a Variable category if and only if its type
\* is exactly the class that category recognizes, an instance of a subclass
\* being in none; each value is in at most one Variable list.
C23_ExactTypeMatch ==
    \A n \in PlainValues :
        /\ \A c \in ScriptVariableCategories :
              Classify(n) = c <=> agent_module.attrs[n].type = RecognizedType(c)
        /\ Cardinality(ListsHolding(n) \cap ScriptVariableCategories) <= 1

\* the name meets the prefix and keywords of more than one Function category
\* of the running script
Overlapping(n) ==
    Cardinality({c \in ScriptFunctionCategories : Matches(n, c)}) >= 2

\* C24: a function of the module whose name meets the keywords of more than
\* one category (create_agent_team) makes the resolution fail with the
\* ambiguity ValueError; it is not returned as the candidate of one of the
\* categories it overlaps.
C24_OverlapFails ==
    \A n \in ModuleFunctions :
        (Resolved /\ Overlapping(n)) =>
            /\ Detected.exc = "ValueError"
            /\ Detected.pattern_name # n

\* the positions of __all__ holding a name the loop body puts in category c
AllOccurrences(c) ==
    {i \in 1..Len(agent_module.all) : Classify(agent_module.all[i]) = c}

\* C26: candidates are counted per occurrence in the candidate name list: when
\* __all__ lists a matching name twice its category holds two entries, and
\* when that category is the highest-priority non-empty one the resolution
\* fails with the ambiguity ValueError, naming the name as often as it is
\* listed, although one export only matches.
C26_CountedPerOccurrence ==
    agent_module.has_all =>
        /\ LET lists == Lists
           IN  \A c \in Range(Categories) :
                   Len(lists[c]) = Cardinality(AllOccurrences(c))
        /\ (Resolved /\ HasTop /\ Cardinality(AllOccurrences(Top)) >= 2) =>
              /\ Detected.exc = "ValueError"
              /\ Detected.pattern_type = Top
              /\ Len(Detected.names) = Cardinality(AllOccurrences(Top))
              /\ Detected.names =
                    SelectSeq(agent_module.all, LAMBDA name : Classify(name) = Top)
              /\ result.status = "raised"

\* __all__ = ['create_agent', 'create_agent']: one export, two entries, the
\* ambiguity ValueError
C26_Witness ==
    /\ Resolved
    /\ agent_module.has_all
    /\ agent_module.all = <<n_create_agent, n_create_agent>>
    /\ Classify(n_create_agent) = "agent_function"
    /\ Cardinality(CandidateNames(Top)) = 1
    /\ Detected.exc = "ValueError"
    /\ Detected.names = <<n_create_agent, n_create_agent>>
    /\ result.status = "raised"

\* the name is in no list, is not returned and is not named in an error
Dropped(n) ==
    /\ Classify(n) = "none"
    /\ ListsHolding(n) = {}
    /\ Resolved =>
          /\ Detected.pattern_name # n
          /\ n \notin Range(Detected.names)

\* C30: a value that can be called and is not a class is considered for the
\* Function categories only: it is dropped when another module declares it
\* or its name meets no function test, and it is in no Variable list even
\* when it is an instance of App, Agent or Team; a class is a candidate of no
\* category.
C30_CallablesAreFunctionsOnly ==
    \A n \in DOMAIN agent_module.attrs :
        LET obj == agent_module.attrs[n]
        IN  /\ (obj.callable /\ ~obj.isclass) =>
                  /\ Classify(n) \in ScriptFunctionCategories \cup {"none"}
                  /\ ListsHolding(n) \cap ScriptVariableCategories = {}
                  /\ obj.module # agent_module.name => Dropped(n)
                  /\ (~\E c \in ScriptFunctionCategories : Matches(n, c)) => Dropped(n)
            /\ obj.isclass => Dropped(n)

\* a module whose only export is an Agent instance that can be called, named
\* financial_agent: nothing is resolved
C30_Witness ==
    /\ Resolved
    /\ script = "agui"
    /\ DOMAIN agent_module.attrs = {n_financial_agent}
    /\ agent_module.attrs[n_financial_agent].callable
    /\ ~agent_module.attrs[n_financial_agent].isclass
    /\ IsInstance(agent_module.attrs[n_financial_agent], "Agent")
    /\ Detected.exc = "ImportError"
    /\ result.status = "raised"

----------------------------------------------------------------------------
(* Properties of the served surface *)

\* the served surface has no authentication: ENABLE_AUTH is false, or the
\* AG-UI script runs
AuthOff == script = "agui" \/ ~auth_enabled

\* C25: with ENABLE_AUTH false in the FastAPI deployment, and always in the
\* AG-UI deployment, the returned surface is the application itself: no
\* middleware is around it, no route got the security dependency, and every
\* request, whatever its path and Authorization header, goes to the
\* application once, is never answered with 401 and never fails in a header
\* check.
C25_NoAuthSurface ==
    AuthOff =>
        /\ result.status = "returned"
        /\ mw = Unwrapped(GetApp(result.app_obj))
        /\ mw.kind # "TokenAuthMiddleware"
        /\ \A r \in mw.app.routes : r.security = 0
        /\ sent = <<>>
        /\ raised = "none"
        /\ rpc \in {"idle", "done"}
        /\ rpc = "done" => Forwarded

\* a request for /v1/runs with an undecodable Authorization header went to
\* the application of the FastAPI deployment with ENABLE_AUTH false
C25_Witness ==
    /\ script = "fastapi"
    /\ ~auth_enabled
    /\ rpc = "done"
    /\ req.type = "http"
    /\ req.path = "/v1/runs"
    /\ req.headers = << <<"authorization", <<BadByte>>>> >>
    /\ Forwarded

====
